---------------------------- MODULE Spec2Model ----------------------------
(***************************************************************************)
(* A model of faucet's per-datapath forwarding controller (class Valve,    *)
(* src/faucet/valve.py).  Every Valve method that is modelled is an        *)
(* operator from a world record (the fields of all Valve, DP, Port and     *)
(* VLAN objects) to a world record; an action applies one handler to the   *)
(* current world and commits the result.                                   *)
(*                                                                         *)
(* OpenFlow messages are records [k, port, vid, prio, dp]: the kind of     *)
(* message, the in_port and VLAN it matches (0: none), its priority (by    *)
(* the name of the DP attribute) and the DP configuration self.dp held     *)
(* when the message was built.                                             *)
(***************************************************************************)
EXTENDS Integers, Sequences, FiniteSets, TLC

\* ------------------------------------------------------------------ bounds
\* Largest value of the clock handed to the handlers as `now`.
MaxNow == 2
\* ... and the last time of the LACP specification, where a reply has to age
\* beyond lacp_resp_interval
MaxLacpNow == 3
\* Largest number of connections, and of disconnections, of one datapath.
MaxConnects == 1
\* ... and at most MaxReconnects times where it connects again
MaxReconnects == 2
\* The packet-ins a datapath sends within one second are at most MaxPacketIns.
MaxPacketIns == 4
\* The packet-ins a datapath has handled are at most MaxPacketInCount.
MaxPacketInCount == 2
\* No list is prepared once MaxFlowmsgs messages were.
MaxFlowmsgs == 50
\* Largest number of errors a datapath reports.
MaxErrors == 2
\* Largest number of reload_config calls in one behaviour.
MaxReloads == 2
\* The stack probes a datapath has verified are at most MaxProbes.
MaxProbes == 2
\* The datapath with the LACP drop is sent at most MaxLacpFlowmsgs messages
\* before the last handler runs.
MaxLacpFlowmsgs == 22
\* The clock of the stack link expiry stops at MaxExpiryNow.
MaxExpiryNow == 4

\* ------------------------------------------------------- program constants
\* remote_dp.lldp_beacon['send_interval'] of the modelled stack DPs.
SendInterval == 2
\* port.max_lldp_lost of the modelled stack ports.
MaxLldpLost == 1
\* dp.lacp_timeout of the modelled DPs.
LacpTimeout == 1
\* port.lacp_resp_interval of the modelled LACP ports.
LacpRespInterval == 1
\* valve_packet.LACP_SIZE, the length of a LACP frame.
LACP_SIZE == 124

PortNos == {1, 2, 3}
\* None of Python, for times and port numbers.
None == -1

\* The stack states of a port (port.py: stack_init, stack_up, stack_down,
\* and the admin-down state that _next_stack_link_state reads).
STACK_ADMIN_DOWN == "ADMIN_DOWN"
STACK_INIT == "INIT"
STACK_DOWN == "DOWN"
STACK_UP == "UP"

\* ------------------------------------------------------------------ helpers
RECURSIVE SortedSeq(_)
\* The elements of a finite set of integers in ascending order.
SortedSeq(S) ==
  IF S = {} THEN <<>>
  ELSE LET m == CHOOSE x \in S : \A y \in S : x <= y
       IN <<m>> \o SortedSeq(S \ {m})

Range(q) == {q[i] : i \in 1..Len(q)}

ValveNames == <<"v1", "v2", "v3">>
\* The elements of a set of valves, in the order of ValveNames.
ValveSeq(S) == SelectSeq(ValveNames, LAMBDA w : w \in S)

\* -------------------------------------------------------------------- state
VARIABLES
  valves,         \* the Valve objects that were constructed
  tfm,            \* valve -> whether its class is a TfmValve
  conf,           \* name -> the DP object the configuration parser built
  dp,             \* valve -> the configuration self.dp was built from
  running,        \* valve -> dp.dyn_running
  up_nos,         \* valve -> dp.dyn_up_port_nos
  coldstart,      \* valve -> dp.dyn_last_coldstart_time
  last_pipeline,  \* valve -> self._last_pipeline_flows ("" when empty)
  phys_up,        \* valve -> port -> port.dyn_phys_up
  lacp_up,        \* valve -> port -> port.dyn_lacp_up
  last_lacp_pkt,  \* valve -> port -> port.dyn_last_lacp_pkt
  lacp_updated,   \* valve -> port -> port.dyn_lacp_updated_time
  lacp_last_resp, \* valve -> port -> port.dyn_lacp_last_resp_time
  stack_state,    \* valve -> port -> port.dyn_stack_current_state
  probe,          \* valve -> port -> port.dyn_stack_probe_info
  hosts,          \* valve -> the VLAN host caches, as <<vid, port, mac>>
  topo,           \* valve -> stack links its flood manager holds up
  metrics,        \* valve -> the gauges and counters of the metric sink
  last_advertise_sec,      \* valve -> self._last_advertise_sec
  last_fast_advertise_sec, \* valve -> self._last_fast_advertise_sec
  last_packet_in_sec,      \* valve -> self._last_packet_in_sec
  packet_in_count_sec,     \* valve -> self._packet_in_count_sec
  recent_ofmsgs,  \* valve -> self.recent_ofmsgs, oldest first
  datapath,       \* valve -> the flows its datapath holds, and those recorded
  reloads,        \* reload_config calls so far (bounds the behaviours)
  clock,          \* the time the event loop hands over as `now`
  ret,            \* what the last handler returned
  raised,         \* the exception the last handler raised ("" when none)
  notes,          \* the notifications the last handler sent
  calls,          \* the manager calls the last handler made
  last            \* the last handler, its Valve and its arguments

vars == <<valves, tfm, conf, dp, running, up_nos, coldstart, last_pipeline, phys_up,
          lacp_up, last_lacp_pkt, lacp_updated, lacp_last_resp, stack_state,
          probe, hosts, topo, metrics, last_advertise_sec,
          last_fast_advertise_sec, last_packet_in_sec, packet_in_count_sec,
          recent_ofmsgs, datapath, reloads, clock, ret, raised, notes, calls,
          last>>

\* ------------------------------------------------------------ configuration
\* A port as declared in a configuration.
DefaultPort ==
  [native |-> 0, tagged |-> {}, acl |-> 0, lacp |-> 0, lacp_active |-> FALSE,
   lacp_passthrough |-> {}, stack_dp |-> "", stack_port |-> 0,
   output_only |-> FALSE, opstatus_reconf |-> TRUE, mirror |-> 0,
   receive_lldp |-> FALSE, coprocessor |-> FALSE, permanent_learn |-> FALSE,
   enabled |-> TRUE, max_hosts |-> 0]

Native(vid) == [DefaultPort EXCEPT !.native = vid]
StackTo(d, p) == [DefaultPort EXCEPT !.stack_dp = d, !.stack_port = p]

\* What a DP has unless its configuration says otherwise: no packet-in
\* meter, no meters, no group table, no idle timeouts, no route learning
\* across the stack, no VLAN with a virtual IP address (vips).
DefaultDp ==
  [packetin_pps |-> 0, meters |-> {}, group_table |-> FALSE,
   use_idle_timeout |-> FALSE, stack_route_learning |-> FALSE,
   advertise_interval |-> 0, fast_advertise_interval |-> 0,
   ignore_learn_ins |-> 0, strict_packet_in_cookie |-> TRUE,
   cookie |-> 1524372928, global_vlan |-> 0, dp_id |-> 1,
   priority_offset |-> 0, vips |-> {}]

\* The configurations (validated DP objects) of the model, as declared.
\* pipeline stands for the table set the DP declares (what
\* tfm_pipeline.load_tables reads).
DeclaredConfigs ==
  [ \* three DPs of one deployment: s1 and s2 stacked, s3 standalone
    s1 |-> [name |-> "s1", stack_root_name |-> "s1", pipeline |-> "t1",
            ports |-> (1 :> StackTo("s2", 1) @@ 2 :> Native(100))],
    s2 |-> [name |-> "s2", stack_root_name |-> "s1", pipeline |-> "t1",
            dp_id |-> 2, priority_offset |-> 1000,
            ports |-> (1 :> StackTo("s1", 1)
                       @@ 2 :> [Native(100) EXCEPT !.acl = 1]
                       @@ 3 :> [DefaultPort EXCEPT !.tagged = {100, 200}])],
    s3 |-> [name |-> "s3", stack_root_name |-> "", pipeline |-> "t1",
            dp_id |-> 3,
            ports |-> (1 :> Native(100))],
    \* two stacked DPs that learn routes across the stack; r2 has a LACP port
    r1 |-> [name |-> "r1", stack_root_name |-> "r1", pipeline |-> "t1",
            stack_route_learning |-> TRUE,
            ports |-> (1 :> StackTo("r2", 1) @@ 2 :> Native(100))],
    r2 |-> [name |-> "r2", stack_root_name |-> "r1", pipeline |-> "t1",
            dp_id |-> 2,
            stack_route_learning |-> TRUE,
            ports |-> (1 :> StackTo("r1", 1)
                       @@ 2 :> Native(100)
                       @@ 3 :> [Native(200) EXCEPT !.lacp = 1])],
    \* two stacked DPs that learn routes across the stack and route on VLAN
    \* 100; g1 has a port that holds one host at most, and a LACP port
    g1 |-> [name |-> "g1", stack_root_name |-> "g1", pipeline |-> "t1",
            stack_route_learning |-> TRUE, vips |-> {100},
            ports |-> (1 :> StackTo("g2", 1)
                       @@ 2 :> [Native(100) EXCEPT !.max_hosts = 1]
                       @@ 3 :> [Native(100) EXCEPT !.lacp = 1])],
    g2 |-> [name |-> "g2", stack_root_name |-> "g1", pipeline |-> "t1",
            dp_id |-> 2,
            stack_route_learning |-> TRUE, vips |-> {100},
            ports |-> (1 :> StackTo("g1", 1) @@ 2 :> Native(100))],
    \* a standalone DP with two LACP ports, the first of which passes the
    \* state of the second through (tests: ValveLACPTestCase)
    l1 |-> [name |-> "l1", stack_root_name |-> "", pipeline |-> "t1",
            ports |-> (1 :> [Native(100) EXCEPT !.lacp = 1,
                                                !.lacp_passthrough = {3}]
                       @@ 2 :> Native(100)
                       @@ 3 :> [Native(100) EXCEPT !.lacp = 2])],
    \* l1 with its first LACP port active, and advertising
    q1 |-> [name |-> "q1", stack_root_name |-> "", pipeline |-> "t1",
            fast_advertise_interval |-> 1,
            ports |-> (1 :> [Native(100) EXCEPT !.lacp = 1, !.lacp_active = TRUE,
                                                !.lacp_passthrough = {3}]
                       @@ 2 :> Native(100)
                       @@ 3 :> [Native(100) EXCEPT !.lacp = 2])],
    \* a standalone DP whose port 3 is always up (opstatus_reconf false),
    \* with meters, a packet-in meter, a group table and idle timeouts
    p1 |-> [name |-> "p1", stack_root_name |-> "", pipeline |-> "t1",
            packetin_pps |-> 100, meters |-> {1, 2}, group_table |-> TRUE,
            use_idle_timeout |-> TRUE,
            ports |-> (1 :> [Native(100) EXCEPT !.acl = 1]
                       @@ 2 :> [DefaultPort EXCEPT !.tagged = {100, 200}]
                       @@ 3 :> [Native(200) EXCEPT !.opstatus_reconf = FALSE])],
    \* p1 without any of those
    p2 |-> [name |-> "p2", stack_root_name |-> "", pipeline |-> "t1",
            ports |-> (1 :> [Native(100) EXCEPT !.acl = 1]
                       @@ 2 :> [DefaultPort EXCEPT !.tagged = {100, 200}]
                       @@ 3 :> [Native(200) EXCEPT !.opstatus_reconf = FALSE])],
    \* p2 accepting packet-ins with any cookie
    k1 |-> [name |-> "k1", stack_root_name |-> "", pipeline |-> "t1",
            strict_packet_in_cookie |-> FALSE,
            ports |-> (1 :> [Native(100) EXCEPT !.acl = 1]
                       @@ 2 :> [DefaultPort EXCEPT !.tagged = {100, 200}]
                       @@ 3 :> [Native(200) EXCEPT !.opstatus_reconf = FALSE])],
    \* a standalone DP that advertises, with an active LACP port, and that
    \* ignores every second packet-in of a second
    t1 |-> [name |-> "t1", stack_root_name |-> "", pipeline |-> "t1",
            advertise_interval |-> 2, fast_advertise_interval |-> 1,
            ignore_learn_ins |-> 2,
            ports |-> (1 :> [Native(100) EXCEPT !.lacp = 1, !.lacp_active = TRUE]
                       @@ 2 :> Native(100))],
    \* a standalone DP whose LACP port passes through the state of port 3,
    \* which the DP does not have
    x1 |-> [name |-> "x1", stack_root_name |-> "", pipeline |-> "t1",
            ports |-> (1 :> [Native(100) EXCEPT !.lacp = 1,
                                                !.lacp_passthrough = {3}]
                       @@ 2 :> Native(100))],
    \* a standalone DP and the configurations it is reloaded with
    a  |-> [name |-> "a", stack_root_name |-> "", pipeline |-> "t1",
            ports |-> (1 :> [Native(100) EXCEPT !.acl = 1]
                       @@ 2 :> [Native(200) EXCEPT !.lacp = 1]
                       @@ 3 :> Native(200))],
    \* a with another ACL bound to port 1
    b  |-> [name |-> "a", stack_root_name |-> "", pipeline |-> "t1",
            ports |-> (1 :> [Native(100) EXCEPT !.acl = 2]
                       @@ 2 :> [Native(200) EXCEPT !.lacp = 1]
                       @@ 3 :> Native(200))],
    \* a with port 3 moved to a new native VLAN
    c  |-> [name |-> "a", stack_root_name |-> "", pipeline |-> "t1",
            ports |-> (1 :> [Native(100) EXCEPT !.acl = 1]
                       @@ 2 :> [Native(200) EXCEPT !.lacp = 1]
                       @@ 3 :> Native(300))],
    \* a without port 3
    d  |-> [name |-> "a", stack_root_name |-> "", pipeline |-> "t1",
            ports |-> (1 :> [Native(100) EXCEPT !.acl = 1]
                       @@ 2 :> [Native(200) EXCEPT !.lacp = 1])],
    \* a with every port on VLAN 300
    e  |-> [name |-> "a", stack_root_name |-> "", pipeline |-> "t1",
            ports |-> (1 :> [Native(300) EXCEPT !.acl = 1]
                       @@ 2 :> [Native(300) EXCEPT !.lacp = 1]
                       @@ 3 :> Native(300))],
    \* a with an ACL bound to port 1 whose matches need another table set
    f  |-> [name |-> "a", stack_root_name |-> "", pipeline |-> "t2",
            ports |-> (1 :> [Native(100) EXCEPT !.acl = 3]
                       @@ 2 :> [Native(200) EXCEPT !.lacp = 1]
                       @@ 3 :> Native(200))] ]

\* The configurations with everything they leave out at its default.
Configs == [c \in DOMAIN DeclaredConfigs |-> DeclaredConfigs[c] @@ DefaultDp]

ConfigIds == DOMAIN Configs
ReloadConfigs == {"a", "b", "c", "d", "e", "f"}

\* dp.ports, dp.port_no_valid(port_no), dp.vlans (the VLANs that have ports)
CPorts(c) == DOMAIN conf[c].ports
CPort(c, p) == conf[c].ports[p]
port_no_valid(c, p) == p \in CPorts(c)
PortVids(pc) == (IF pc.native = 0 THEN {} ELSE {pc.native}) \cup pc.tagged
CVlans(c) == UNION {PortVids(CPort(c, p)) : p \in CPorts(c)}
\* vlan.get_ports()
VlanPorts(c, vid) == {p \in CPorts(c) : vid \in PortVids(CPort(c, p))}
\* port.vlans(): the native VLAN, then the tagged VLANs
PortVlanSeq(pc) ==
  (IF pc.native = 0 THEN <<>> ELSE <<pc.native>>) \o SortedSeq(pc.tagged)
\* dp.stack_ports
StackPorts(c) == {p \in CPorts(c) : CPort(c, p).stack_dp # ""}
IsStacked(c) == conf[c].stack_root_name # ""
\* dp.has_acls: an ACL manager exists iff some port binds an ACL
has_acls(c) == \E p \in CPorts(c) : CPort(c, p).acl # 0
\* dp.lacp_forwarding(port): non-stacked DP, or the root of the stack
lacp_forwarding(c) ==
  ~IsStacked(c) \/ conf[c].stack_root_name = conf[c].name


\* The world the handlers transform.  acc is the ofmsgs list a handler is
\* building; out and keys are its ofmsgs_by_valve map.
World ==
  [tfm |-> tfm, dp |-> dp, running |-> running, up_nos |-> up_nos,
   coldstart |-> coldstart, last_pipeline |-> last_pipeline,
   phys_up |-> phys_up, lacp_up |-> lacp_up, last_lacp_pkt |-> last_lacp_pkt,
   lacp_updated |-> lacp_updated, lacp_last_resp |-> lacp_last_resp,
   stack_state |-> stack_state, probe |-> probe, hosts |-> hosts,
   topo |-> topo, metrics |-> metrics,
   last_advertise_sec |-> last_advertise_sec,
   last_fast_advertise_sec |-> last_fast_advertise_sec,
   last_packet_in_sec |-> last_packet_in_sec,
   packet_in_count_sec |-> packet_in_count_sec,
   recent_ofmsgs |-> recent_ofmsgs,
   acc |-> <<>>, out |-> [v \in valves |-> <<>>], keys |-> {},
   none |-> FALSE, exc |-> "",
   notes |-> <<>>, calls |-> <<>>]

\* A handler's return value: none for Python's None, else the map
\* ofmsgs_by_valve (keys: the Valves that have an entry); a handler that
\* returns a list has the one key self.
RetMap(s) == [none |-> FALSE, keys |-> s.keys, by |-> s.out]
RetList(s, v) ==
  [none |-> FALSE, keys |-> {v}, by |-> [s.out EXCEPT ![v] = s.acc]]
RetNone(s) == [none |-> TRUE, keys |-> {}, by |-> s.out]

CommitAll(s, r, l, d) ==
  /\ datapath' = d
  /\ dp' = s.dp
  /\ running' = s.running
  /\ up_nos' = s.up_nos
  /\ coldstart' = s.coldstart
  /\ last_pipeline' = s.last_pipeline
  /\ phys_up' = s.phys_up
  /\ lacp_up' = s.lacp_up
  /\ last_lacp_pkt' = s.last_lacp_pkt
  /\ lacp_updated' = s.lacp_updated
  /\ lacp_last_resp' = s.lacp_last_resp
  /\ stack_state' = s.stack_state
  /\ probe' = s.probe
  /\ hosts' = s.hosts
  /\ topo' = s.topo
  /\ metrics' = s.metrics
  /\ last_advertise_sec' = s.last_advertise_sec
  /\ last_fast_advertise_sec' = s.last_fast_advertise_sec
  /\ last_packet_in_sec' = s.last_packet_in_sec
  /\ packet_in_count_sec' = s.packet_in_count_sec
  /\ recent_ofmsgs' = s.recent_ofmsgs
  /\ ret' = r
  /\ raised' = s.exc
  /\ notes' = s.notes
  /\ calls' = s.calls
  /\ last' = l
  /\ UNCHANGED <<valves, tfm, conf>>

\* The state after a handler: nothing reaches the datapath before the
\* messages returned are sent.
Commit(s, r, l) == CommitAll(s, r, l, datapath)

\* The state after a handler that returns ofmsgs_by_valve.
Return(s, l) == Commit(s, RetMap(s), l)

\* ----------------------------------------------------------------- messages
Msg(k, c, p, vid, prio) == [k |-> k, port |-> p, vid |-> vid, prio |-> prio, dp |-> c]
\* A flow that sends to the controller at most max_len bytes of a packet.
MsgMaxLen(k, c, p, vid, prio, max_len) ==
  [k |-> k, port |-> p, vid |-> vid, prio |-> prio, dp |-> c, max_len |-> max_len]

\* The priority of a flow of DP c whose message names prio: the DP derives
\* its priorities from its priority_offset (0 for a message without one).
priority_of(c, prio) ==
  LET low_priority == conf[c].priority_offset + 9000
      high_priority == low_priority + 1
  IN CASE prio = "lowest_priority" -> conf[c].priority_offset
       [] prio = "low_priority" -> low_priority
       [] prio = "low_priority+1" -> low_priority + 1
       [] prio = "high_priority" -> high_priority
       [] prio = "highest_priority" -> high_priority + 98
       [] OTHER -> 0
Emit(s, msgs) == [s EXCEPT !.acc = @ \o msgs]
Call(s, c) == [s EXCEPT !.calls = Append(@, c)]
Notify(s, k, a) == [s EXCEPT !.notes = Append(@, [k |-> k, a |-> a])]
\* The handler raises e: what it did so far stays, what it would have
\* returned is lost.
Raise(s, e) ==
  [s EXCEPT !.exc = e, !.acc = <<>>, !.keys = {},
            !.out = [w \in DOMAIN @ |-> <<>>]]

\* The dynamic state of a freshly built Port object.
NoPkt == [sys |-> 0, up |-> 0]
\* A datapath without flows; seen and seen_dp are the flows an observer
\* recorded and the configuration in force then ("": nothing recorded).
NoFlows == [flows |-> {}, seen |-> {}, seen_dp |-> ""]
NoProbe == [last_seen_lldp_time |-> None, stack_correct |-> FALSE]
InitMetrics ==
  [port_lacp_status |-> [p \in PortNos |-> None],
   port_stack_state |-> [p \in PortNos |-> "unset"],
   port_status |-> [p \in PortNos |-> None],
   dp_status |-> None,
   of_dp_connections |-> 0,
   of_dp_disconnections |-> 0,
   of_ignored_packet_ins |-> 0,
   of_vlan_packet_ins |-> 0,
   of_non_vlan_packet_ins |-> 0,
   of_errors |-> 0,
   of_flowmsgs_sent |-> 0,
   stack_probes_received |-> 0,
   stack_cabling_errors |-> 0,
   port_learn_bans |-> [p \in PortNos |-> 0],
   faucet_config_reload_cold |-> 0,
   faucet_config_reload_warm |-> 0]

\* host_manager.del_port(port): the flows of the hosts learned on the port
\* are deleted and the hosts leave the VLAN caches.
host_del_port(s, v, p) ==
  LET s1 == [s EXCEPT !.hosts[v] = {h \in @ : h[2] # p}]
  IN Emit(s1, <<Msg("host_del_port", s.dp[v], p, 0, "")>>)

RECURSIVE flood_add_vlans(_, _, _)
\* flood_manager.add_vlan(vlan) for each VLAN of a list
flood_add_vlans(s, v, vids) ==
  IF vids = <<>> THEN s
  ELSE flood_add_vlans(
         Emit(s, <<Msg("flood_add_vlan", s.dp[v], 0, Head(vids), "")>>),
         v, Tail(vids))

RECURSIVE flood_update_vlans(_, _, _)
\* flood_manager.update_vlan(vlan) for each VLAN of a list
flood_update_vlans(s, v, vids) ==
  IF vids = <<>> THEN s
  ELSE flood_update_vlans(
         Emit(s, <<Msg("flood_update_vlan", s.dp[v], 0, Head(vids), "")>>),
         v, Tail(vids))

\* ---------------------------------------------------------------------- LACP
\* Valve._reset_lacp_status
reset_lacp_status(s, v, p) ==
  [s EXCEPT !.metrics[v].port_lacp_status[p] = s.lacp_up[v][p]]

\* A lacp_down that installs the punt of slow-protocol frames and no drop.
lacp_down_punt_only(s, v, p, cold_start) ==
  LET c == s.dp[v]
      forget(a) ==
        IF cold_start THEN a
        ELSE flood_add_vlans(host_del_port(a, v, p), v, PortVlanSeq(CPort(c, p)))
  IN reset_lacp_status(
       Emit(forget([s EXCEPT !.lacp_up[v][p] = 0,
                             !.last_lacp_pkt[v][p] = NoPkt,
                             !.lacp_updated[v][p] = None,
                             !.lacp_last_resp[v][p] = None]),
            <<MsgMaxLen("flowcontroller_slow", c, p, 0, "highest_priority",
                        LACP_SIZE)>>),
       v, p)

\* A lacp_down that always behaves as during a cold start.
lacp_down_always_cold(s, v, p, cold_start) ==
  LET c == s.dp[v]
  IN reset_lacp_status(
       Emit([s EXCEPT !.lacp_up[v][p] = 0,
                      !.last_lacp_pkt[v][p] = NoPkt,
                      !.lacp_updated[v][p] = None,
                      !.lacp_last_resp[v][p] = None],
            <<Msg("flowdrop", c, p, 0, "high_priority"),
              MsgMaxLen("flowcontroller_slow", c, p, 0, "highest_priority",
                        LACP_SIZE)>>),
       v, p)

\* A lacp_down that, during a cold start, installs the flows and leaves the
\* LACP state of the port as it is.
lacp_down_cold_keeps(s, v, p, cold_start) ==
  LET c == s.dp[v]
      reset(a) ==
        IF cold_start THEN a
        ELSE flood_add_vlans(
               host_del_port([a EXCEPT !.lacp_up[v][p] = 0,
                                       !.last_lacp_pkt[v][p] = NoPkt,
                                       !.lacp_updated[v][p] = None,
                                       !.lacp_last_resp[v][p] = None], v, p),
               v, PortVlanSeq(CPort(c, p)))
  IN reset_lacp_status(
       Emit(reset(s),
            <<Msg("flowdrop", c, p, 0, "high_priority"),
              MsgMaxLen("flowcontroller_slow", c, p, 0, "highest_priority",
                        LACP_SIZE)>>),
       v, p)

\* Valve.lacp_down
lacp_down(s, v, p, cold_start) ==
  LET c == s.dp[v]
      forget(a) ==
        IF cold_start THEN a
        ELSE flood_add_vlans(host_del_port(a, v, p), v, PortVlanSeq(CPort(c, p)))
  IN reset_lacp_status(
       Emit(forget([s EXCEPT !.lacp_up[v][p] = 0,
                             !.last_lacp_pkt[v][p] = NoPkt,
                             !.lacp_updated[v][p] = None,
                             !.lacp_last_resp[v][p] = None]),
            <<Msg("flowdrop", c, p, 0, "high_priority"),
              MsgMaxLen("flowcontroller_slow", c, p, 0, "highest_priority",
                        LACP_SIZE)>>),
       v, p)

\* A lacp_up that leaves the port as it is.
lacp_up_noop(s, v, p) == s

\* Valve.lacp_up
lacp_up_(s, v, p) ==
  LET c == s.dp[v]
      forward(a) ==
        IF lacp_forwarding(c)
        THEN flood_add_vlans(
               Emit(a, <<Msg("flowdel_strict", c, p, 0, "high_priority")>>),
               v, PortVlanSeq(CPort(c, p)))
        ELSE a
  IN reset_lacp_status(forward([s EXCEPT !.lacp_up[v][p] = 1]), v, p)

\* A _lacp_actions that sends nothing on a port with passthrough peers.
lacp_actions_mute(s, v, pkt, p) ==
  LET c == s.dp[v]
      pdu(a) ==
        IF CPort(c, p).lacp_passthrough = {}
        THEN Emit(a, <<Msg("lacp_pdu", c, p, pkt.sys, "")>>)
        ELSE a
  IN pdu(Call(s, [f |-> "lacp_actions", v |-> v, p |-> p]))

\* A _lacp_actions that answers whatever the state of the passthrough peers.
lacp_actions_always(s, v, pkt, p) ==
  Emit(Call(s, [f |-> "lacp_actions", v |-> v, p |-> p]),
       <<Msg("lacp_pdu", s.dp[v], p, pkt.sys, "")>>)

\* Valve._lacp_actions: the PDU sent on the port, none once a passthrough
\* peer is found down; dp.ports.get(peer_num, None) is None for a peer that
\* is not a port of the DP, and reading dyn_lacp_up of None raises.
lacp_actions(s, v, pkt, p) ==
  LET c == s.dp[v]
      stops(a, peer) == peer \notin CPorts(c) \/ a.lacp_up[v][peer] = 0
      first(peers) == CHOOSE peer \in peers : \A other \in peers : peer <= other
      stop(a, peers) ==
        IF peers = {} THEN Emit(a, <<Msg("lacp_pdu", c, p, pkt.sys, "")>>)
        ELSE IF first(peers) \notin CPorts(c) THEN Raise(a, "AttributeError")
        ELSE a
      pdu(a) == stop(a, {peer \in CPort(c, p).lacp_passthrough : stops(a, peer)})
  IN pdu(Call(s, [f |-> "lacp_actions", v |-> v, p |-> p]))

\* -------------------------------------------------------- ports and VLANs
RECURSIVE port_add_vlans_tagged(_, _, _, _)
port_add_vlans_tagged(s, v, p, vids) ==
  IF vids = <<>> THEN s
  ELSE port_add_vlans_tagged(
         Emit(s, <<Msg("port_vlan_tagged", s.dp[v], p, Head(vids), "low_priority")>>),
         v, p, Tail(vids))

\* Valve._port_add_vlans: a rule for each tagged VLAN, then the native VLAN
port_add_vlans(s, v, p) ==
  LET pc == CPort(s.dp[v], p)
      native(a) ==
        IF pc.native # 0
        THEN Emit(a, <<Msg("port_vlan_native", s.dp[v], p, pc.native, "low_priority")>>)
        ELSE a
  IN native(port_add_vlans_tagged(s, v, p, SortedSeq(pc.tagged)))

\* A ports_add loop body that drops the untagged traffic of a stack port at
\* the priority at which it accepts the port's traffic.
ports_add_one_flat(s, v, p, cold_start) ==
  LET c == s.dp[v]
      pc == CPort(c, p)
      \* manager.add_port(port): the ACL manager programs the port's ACL
      acl(a) == IF has_acls(c) THEN Emit(a, <<Msg("acl_port", c, p, 0, "")>>) ELSE a
      lldp(a) ==
        IF pc.receive_lldp
        THEN Emit(a, <<MsgMaxLen("flowcontroller_lldp", c, p, 0, "highest_priority", 128)>>)
        ELSE a
      pdu(d) ==
        IF pc.lacp_active THEN lacp_actions(d, v, d.last_lacp_pkt[v][p], p) ELSE d
      lacp(a) == IF pc.lacp # 0 THEN pdu(lacp_down(a, v, p, cold_start)) ELSE a
      kind(a) ==
        IF pc.coprocessor
        THEN [w |-> Emit(a, <<Msg("coprocessor", c, p, 0, "low_priority")>>),
              vids |-> {}]
        ELSE IF pc.output_only
          THEN [w |-> Emit(a, <<Msg("flowdrop", c, p, 0, "highest_priority")>>),
                vids |-> {}]
        ELSE IF pc.stack_dp # ""
          THEN [w |-> Emit(lacp(lldp(a)),
                           <<Msg("flowdrop_untagged", c, p, 0, "low_priority"),
                             Msg("accept_to_classification", c, p, 0, "low_priority")>>),
                vids |-> CVlans(c)]
        ELSE [w |-> port_add_vlans(lacp(lldp(a)), v, p), vids |-> PortVids(pc)]
      up(a) == IF ~pc.enabled THEN [w |-> a, vids |-> {}] ELSE kind(acl(a))
  IN IF ~port_no_valid(c, p) THEN [w |-> s, vids |-> {}]
     ELSE up([s EXCEPT !.phys_up[v][p] = TRUE])

\* The body of the loop of Valve.ports_add for one port; the result is the
\* world and the VLANs the port adds to vlans_with_ports_added.
ports_add_one(s, v, p, cold_start) ==
  LET c == s.dp[v]
      pc == CPort(c, p)
      \* manager.add_port(port): the ACL manager programs the port's ACL
      acl(a) == IF has_acls(c) THEN Emit(a, <<Msg("acl_port", c, p, 0, "")>>) ELSE a
      lldp(a) ==
        IF pc.receive_lldp
        THEN Emit(a, <<MsgMaxLen("flowcontroller_lldp", c, p, 0, "highest_priority", 128)>>)
        ELSE a
      pdu(d) ==
        IF pc.lacp_active THEN lacp_actions(d, v, d.last_lacp_pkt[v][p], p) ELSE d
      lacp(a) == IF pc.lacp # 0 THEN pdu(lacp_down(a, v, p, cold_start)) ELSE a
      kind(a) ==
        IF pc.coprocessor
        THEN [w |-> Emit(a, <<Msg("coprocessor", c, p, 0, "low_priority")>>),
              vids |-> {}]
        ELSE IF pc.output_only
          THEN [w |-> Emit(a, <<Msg("flowdrop", c, p, 0, "highest_priority")>>),
                vids |-> {}]
        ELSE IF pc.stack_dp # ""
          THEN [w |-> Emit(lacp(lldp(a)),
                           <<Msg("flowdrop_untagged", c, p, 0, "low_priority+1"),
                             Msg("accept_to_classification", c, p, 0, "low_priority")>>),
                vids |-> CVlans(c)]
        ELSE [w |-> port_add_vlans(lacp(lldp(a)), v, p), vids |-> PortVids(pc)]
      up(a) == IF ~pc.enabled THEN [w |-> a, vids |-> {}] ELSE kind(acl(a))
  IN IF ~port_no_valid(c, p) THEN [w |-> s, vids |-> {}]
     ELSE up([s EXCEPT !.phys_up[v][p] = TRUE])

RECURSIVE ports_add_loop(_, _, _, _, _)
ports_add_loop(s, v, ps, cold_start, vids) ==
  LET rest(r) == ports_add_loop(r.w, v, Tail(ps), cold_start, vids \cup r.vids)
  IN IF ps = <<>> THEN [w |-> s, vids |-> vids]
     ELSE rest(ports_add_one(s, v, Head(ps), cold_start))

\* A ports_add that skips the ports that are physically up already.
ports_add_new(s, v, port_nums, cold_start) ==
  LET flood(r) ==
        IF cold_start THEN r.w ELSE flood_add_vlans(r.w, v, SortedSeq(r.vids))
      down == {p \in port_nums : p \notin PortNos \/ ~s.phys_up[v][p]}
  IN flood(ports_add_loop(s, v, SortedSeq(down), cold_start, {}))

\* Valve.ports_add
ports_add(s, v, port_nums, cold_start) ==
  LET flood(r) ==
        IF cold_start THEN r.w ELSE flood_add_vlans(r.w, v, SortedSeq(r.vids))
  IN flood(ports_add_loop(s, v, SortedSeq(port_nums), cold_start, {}))

\* A _port_delete_flows_state that drops every host of the valve.
port_delete_flows_state_all(s, v, p) ==
  Emit([s EXCEPT !.hosts[v] = {}], <<Msg("flowdel_in_port", s.dp[v], p, 0, "")>>)

\* Valve._port_delete_flows_state: the flows matching the port go, and the
\* managers drop their state for it
port_delete_flows_state(s, v, p) ==
  host_del_port(Emit(s, <<Msg("flowdel_in_port", s.dp[v], p, 0, "")>>), v, p)

\* The body of the loop of Valve.ports_delete for one port.
ports_delete_one(s, v, p) ==
  LET c == s.dp[v]
      pc == CPort(c, p)
      s1 == [s EXCEPT !.phys_up[v][p] = FALSE]
  IN IF ~port_no_valid(c, p) THEN [w |-> s, vids |-> {}]
     ELSE IF pc.output_only THEN [w |-> s1, vids |-> {}]
     ELSE [w |-> IF pc.lacp # 0 THEN lacp_down(s1, v, p, FALSE)
                 ELSE port_delete_flows_state(s1, v, p),
           vids |-> PortVids(pc)]

RECURSIVE ports_delete_loop(_, _, _, _)
ports_delete_loop(s, v, ps, vids) ==
  LET rest(r) == ports_delete_loop(r.w, v, Tail(ps), vids \cup r.vids)
  IN IF ps = <<>> THEN [w |-> s, vids |-> vids]
     ELSE rest(ports_delete_one(s, v, Head(ps)))

\* Valve.ports_delete
ports_delete(s, v, port_nums) ==
  LET flood(r) == flood_update_vlans(r.w, v, SortedSeq(r.vids))
  IN flood(ports_delete_loop(s, v, SortedSeq(port_nums), {}))

RECURSIVE add_vlans(_, _, _)
\* Valve._add_vlans: each manager programs the VLAN (the flood manager
\* last of those that emit), and the VLAN's caches are reset
add_vlans(s, v, vids) ==
  IF vids = <<>> THEN s
  ELSE LET vid == Head(vids)
           s1 == Emit(s, <<Msg("add_vlan", s.dp[v], 0, vid, ""),
                           Msg("flood_add_vlan", s.dp[v], 0, vid, "")>>)
           s2 == [s1 EXCEPT !.hosts[v] = {h \in @ : h[1] # vid}]
       IN add_vlans(s2, v, Tail(vids))

\* A _del_vlans that deletes nothing.
del_vlans_none(s, v, vids) == s

RECURSIVE del_vlans(_, _, _)
\* Valve._del_vlans
del_vlans(s, v, vids) ==
  IF vids = <<>> THEN s
  ELSE del_vlans(Emit(s, <<Msg("flowdel_vlan", s.dp[v], 0, Head(vids), "")>>),
                 v, Tail(vids))

\* Valve._set_port_status
set_port_status(s, v, p, status) ==
  LET s1 == [s EXCEPT !.up_nos[v] = IF status THEN @ \cup {p} ELSE @ \ {p}]
  IN IF port_no_valid(s.dp[v], p)
     THEN [s1 EXCEPT !.metrics[v].port_status[p] = IF status THEN 1 ELSE 0]
     ELSE s1

RECURSIVE set_ports_status(_, _, _, _)
set_ports_status(s, v, ps, up) ==
  IF ps = <<>> THEN s
  ELSE set_ports_status(set_port_status(s, v, Head(ps), Head(ps) \in up),
                        v, Tail(ps), up)

\* Valve._add_ports_and_vlans
add_ports_and_vlans(s, v, discovered_up_port_nos) ==
  LET c == s.dp[v]
      always_up == {p \in CPorts(c) : ~CPort(c, p).opstatus_reconf}
      discovered == discovered_up_port_nos \cup always_up
      all_up_port_nos == CPorts(c) \cap discovered
      s1 == set_ports_status(s, v, SortedSeq(CPorts(c)), discovered)
      s2 == Notify(s1, "PORTS_STATUS", "")
      s3 == ports_add(s2, v, all_up_port_nos, TRUE)
  IN add_vlans(s3, v, SortedSeq(CVlans(c)))

\* Valve._reset_dp_status
reset_dp_status(s, v) ==
  [s EXCEPT !.metrics[v].dp_status = IF s.running[v] THEN 1 ELSE 0]

\* Valve._delete_all_valve_flows
delete_all_valve_flows(s, v) ==
  LET c == s.dp[v]
  IN Emit(s, <<Msg("flowdel_all", c, 0, 0, "")>>
             \o (IF conf[c].meters # {}
                 THEN <<Msg("meterdel", c, 0, 0, "")>> ELSE <<>>)
             \o (IF conf[c].group_table
                 THEN <<Msg("groupdel_all", c, 0, 0, "")>> ELSE <<>>))

\* Valve._add_packetin_meter
add_packetin_meter(s, v) ==
  IF conf[s.dp[v]].packetin_pps # 0
  THEN Emit(s, <<Msg("controller_pps_meterdel", s.dp[v], 0, 0, ""),
                 Msg("controller_pps_meteradd", s.dp[v], 0, 0, "")>>)
  ELSE s

\* Valve._add_default_drop_flows: the miss flow of every table
add_default_drop_flows(s, v) ==
  Emit(s, <<Msg("default_flows", s.dp[v], 0, 0, "lowest_priority")>>)

\* The entry_msg of each meter of the DP; the vid field carries the meter.
meter_entries(c, meters) ==
  [i \in 1..Len(meters) |-> Msg("meter_entry", c, 0, meters[i], "")]

\* Valve._add_default_flows, with TfmValve's override: the table features
\* first on a TFM variant, then the delete of all flows, the meters and the
\* default flows of every table
add_default_flows(s, v) ==
  LET c == s.dp[v]
      pipeline(a) ==
        IF a.tfm[v]
        THEN Emit([a EXCEPT !.last_pipeline[v] = conf[c].pipeline],
                  <<Msg("table_features", c, 0, 0, "")>>)
        ELSE a
      meters(a) == Emit(a, meter_entries(c, SortedSeq(conf[c].meters)))
  IN add_default_drop_flows(
       meters(add_packetin_meter(delete_all_valve_flows(pipeline(s), v), v)), v)

\* A datapath_connect that does not configure the asynchronous messages.
datapath_connect_noasync(s, v, now, discovered_up_ports) ==
  LET c == s.dp[v]
      tables(a) == Emit(a, <<Msg("initialise_tables", c, 0, 0, "")>>)
      up(a) == [a EXCEPT !.coldstart[v] = now, !.running[v] = TRUE,
                         !.metrics[v].of_dp_connections = @ + 1]
  IN reset_dp_status(
       up(add_ports_and_vlans(
            tables(add_default_flows(Notify(s, "DP_CHANGE", "cold_start"), v)),
            v, discovered_up_ports)), v)

\* Valve.datapath_connect; the prio field of faucet_async carries
\* notify_flow_removed
datapath_connect(s, v, now, discovered_up_ports) ==
  LET c == s.dp[v]
      tables(a) == Emit(a, <<Msg("initialise_tables", c, 0, 0, "")>>)
      async(a) ==
        Emit(a, <<Msg("faucet_async", c, 0, 0,
                      IF conf[c].use_idle_timeout THEN "flow_removed" ELSE "")>>)
      up(a) == [a EXCEPT !.coldstart[v] = now, !.running[v] = TRUE,
                         !.metrics[v].of_dp_connections = @ + 1]
  IN reset_dp_status(
       up(async(add_ports_and_vlans(
            tables(add_default_flows(Notify(s, "DP_CHANGE", "cold_start"), v)),
            v, discovered_up_ports))), v)

\* A datapath_disconnect that also forgets which ports are up.
datapath_disconnect_forget(s, v) ==
  reset_dp_status(
    [Notify(s, "DP_CHANGE", "disconnect")
       EXCEPT !.running[v] = FALSE, !.up_nos[v] = {},
              !.metrics[v].of_dp_disconnections = @ + 1], v)

\* Valve.datapath_disconnect
datapath_disconnect(s, v) ==
  reset_dp_status(
    [Notify(s, "DP_CHANGE", "disconnect")
       EXCEPT !.running[v] = FALSE,
              !.metrics[v].of_dp_disconnections = @ + 1], v)

\* Moves the list under construction into the returned map's entry for w
\* (ofmsgs_by_valve[w].extend(...); the defaultdict creates the entry).
Into(s, w) ==
  [s EXCEPT !.out[w] = @ \o s.acc, !.keys = @ \cup {w}, !.acc = <<>>]

\* The reasons of a port status message that port_status_handler decodes.
PortStatusCodes == {"ADD", "DELETE", "MODIFY"}

\* A port_status_handler that never deletes before it adds.
port_status_handler_noflap(s, v, p, reason, port_status) ==
  LET c == s.dp[v]
      change(a) ==
        IF reason = "ADD" \/ (reason = "MODIFY" /\ port_status)
        THEN ports_add(a, v, {p}, FALSE)
        ELSE ports_delete(a, v, {p})
      handle(a) ==
        IF ~port_no_valid(c, p) THEN a
        ELSE IF ~CPort(c, p).opstatus_reconf THEN a
        ELSE IF reason \notin PortStatusCodes THEN a
        ELSE Into(change(a), v)
  IN handle(set_port_status(Notify(s, "PORT_CHANGE", reason), v, p, port_status))

\* A port_status_handler that validates the port and the reason before it
\* notifies and before it records the status.
port_status_handler_validate_first(s, v, p, reason, port_status) ==
  LET c == s.dp[v]
      flap(a) == IF a.phys_up[v][p] THEN ports_delete(a, v, {p}) ELSE a
      change(a) ==
        IF reason = "ADD" \/ (reason = "MODIFY" /\ port_status)
        THEN ports_add(flap(a), v, {p}, FALSE)
        ELSE ports_delete(a, v, {p})
      record(a) ==
        set_port_status(Notify(a, "PORT_CHANGE", reason), v, p, port_status)
  IN IF ~port_no_valid(c, p) THEN s
     ELSE IF ~CPort(c, p).opstatus_reconf THEN s
     ELSE IF reason \notin PortStatusCodes THEN s
     ELSE Into(change(record(s)), v)

\* Valve.port_status_handler; port_status is port_status_from_state(state)
port_status_handler(s, v, p, reason, port_status) ==
  LET c == s.dp[v]
      new_port_status == reason = "ADD" \/ (reason = "MODIFY" /\ port_status)
      flap(a) == IF a.phys_up[v][p] THEN ports_delete(a, v, {p}) ELSE a
      change(a) ==
        IF new_port_status
        THEN ports_add(flap(a), v, {p}, FALSE)
        ELSE ports_delete(a, v, {p})
      handle(a) ==
        IF ~port_no_valid(c, p) THEN a
        ELSE IF ~CPort(c, p).opstatus_reconf THEN a
        ELSE IF reason \notin PortStatusCodes THEN a
        ELSE Into(change(a), v)
  IN handle(set_port_status(Notify(s, "PORT_CHANGE", reason), v, p, port_status))

\* ------------------------------------------------------------- stack links
\* A _stacked_valves that finds no other valve: the stack link engine then
\* reaches only the valve of the port.
stacked_valves_none(s, vs) == {}

\* Valve._stacked_valves
stacked_valves(s, vs) == {w \in vs : conf[s.dp[w]].stack_root_name # ""}

\* A _next_stack_link_state that names the state the port should have,
\* whether or not the port has it already, admin-down or not.
next_stack_link_state_again(s, v, p, now) ==
  IF s.probe[v][p].last_seen_lldp_time = None THEN STACK_INIT
  ELSE IF ~s.probe[v][p].stack_correct THEN STACK_DOWN
  ELSE STACK_UP

\* A _next_stack_link_state that brings a port up on any probe, whatever
\* the cabling it reports and however old it is.
next_stack_link_state_any(s, v, p, now) ==
  IF s.probe[v][p].last_seen_lldp_time = None
  THEN (IF s.stack_state[v][p] = STACK_DOWN THEN STACK_INIT ELSE "")
  ELSE (IF s.stack_state[v][p] # STACK_UP THEN STACK_UP ELSE "")

\* A _next_stack_link_state for which no probe is ever too old.
next_stack_link_state_no_timeout(s, v, p, now) ==
  LET cur == s.stack_state[v][p]
      info == s.probe[v][p]
  IN IF cur = STACK_ADMIN_DOWN THEN ""
     ELSE IF info.last_seen_lldp_time = None
       THEN (IF cur = STACK_DOWN THEN STACK_INIT ELSE "")
     ELSE IF ~info.stack_correct
       THEN (IF cur # STACK_DOWN THEN STACK_DOWN ELSE "")
     ELSE (IF cur # STACK_UP THEN STACK_UP ELSE "")

\* A _next_stack_link_state that brings up the ports in INIT only: a port
\* that went DOWN stays DOWN.
next_stack_link_state_from_init(s, v, p, now) ==
  LET cur == s.stack_state[v][p]
      info == s.probe[v][p]
      time_since_lldp_seen == now - info.last_seen_lldp_time
      stack_timed_out == ~(time_since_lldp_seen < MaxLldpLost * SendInterval)
  IN IF cur = STACK_ADMIN_DOWN THEN ""
     ELSE IF info.last_seen_lldp_time = None
       THEN (IF cur = STACK_DOWN THEN STACK_INIT ELSE "")
     ELSE IF ~info.stack_correct
       THEN (IF cur # STACK_DOWN THEN STACK_DOWN ELSE "")
     ELSE IF stack_timed_out
       THEN (IF cur # STACK_DOWN /\ time_since_lldp_seen # 0
             THEN STACK_DOWN ELSE "")
     ELSE (IF cur = STACK_INIT THEN STACK_UP ELSE "")

\* Valve._next_stack_link_state; "" stands for None.  num_lost_lldp <
\* port.max_lldp_lost is (now - last_seen) / send_interval < max_lldp_lost.
next_stack_link_state(s, v, p, now) ==
  LET cur == s.stack_state[v][p]
      info == s.probe[v][p]
      time_since_lldp_seen == now - info.last_seen_lldp_time
      stack_timed_out == ~(time_since_lldp_seen < MaxLldpLost * SendInterval)
  IN IF cur = STACK_ADMIN_DOWN THEN ""
     ELSE IF info.last_seen_lldp_time = None
       THEN (IF cur = STACK_DOWN THEN STACK_INIT ELSE "")
     ELSE IF ~info.stack_correct
       THEN (IF cur # STACK_DOWN THEN STACK_DOWN ELSE "")
     ELSE IF stack_timed_out
       THEN (IF cur # STACK_DOWN /\ time_since_lldp_seen # 0
             THEN STACK_DOWN ELSE "")
     ELSE (IF cur # STACK_UP THEN STACK_UP ELSE "")

\* flood_manager.update_stack_topo(port_stack_up, dp, port) of valve w: the
\* edge of the port is added to, or removed from, w's copy of the graph
update_stack_topo(s, w, up, c, p) ==
  LET e == <<conf[c].name, p>>
      s1 == [s EXCEPT !.topo[w] = IF up THEN @ \cup {e} ELSE @ \ {e}]
  IN Call(s1, [f |-> "update_stack_topo", v |-> w, p |-> p])

RECURSIVE update_stack_topos(_, _, _, _, _)
update_stack_topos(s, ws, up, c, p) ==
  IF ws = <<>> THEN s
  ELSE update_stack_topos(update_stack_topo(s, Head(ws), up, c, p),
                          Tail(ws), up, c, p)

\* Valve.update_tunnel_flowrules: no modelled DP declares a tunnel ACL
update_tunnel_flowrules(s, w) ==
  Call(s, [f |-> "update_tunnel_flowrules", v |-> w, p |-> 0])

\* Valve.get_tunnel_flowmods
get_tunnel_flowmods(s, w) ==
  IF has_acls(s.dp[w]) THEN Emit(s, <<Msg("acl_tunnel", s.dp[w], 0, 0, "")>>)
  ELSE s

RECURSIVE host_del_ports(_, _, _)
host_del_ports(s, w, ps) ==
  IF ps = <<>> THEN s
  ELSE host_del_ports(host_del_port(s, w, Head(ps)), w, Tail(ps))

\* A second loop of _update_stack_link_state without the dyn_running check.
stack_fanout_one_all(s, w) ==
  LET c == s.dp[w]
      s1 == update_tunnel_flowrules(s, w)
      s2 == get_tunnel_flowmods(s1, w)
      s3 == flood_add_vlans(s2, w, SortedSeq(CVlans(c)))
      s4 == host_del_ports(s3, w, SortedSeq(StackPorts(c)))
  IN Into(s4, w)

\* The body of the second loop of _update_stack_link_state for one valve.
stack_fanout_one(s, w) ==
  LET c == s.dp[w]
      s1 == update_tunnel_flowrules(s, w)
      s2 == get_tunnel_flowmods(s1, w)
      s3 == flood_add_vlans(s2, w, SortedSeq(CVlans(c)))
      s4 == host_del_ports(s3, w, SortedSeq(StackPorts(c)))
  IN IF ~s.running[w] THEN s1 ELSE Into(s4, w)

RECURSIVE stack_fanout(_, _)
stack_fanout(s, ws) ==
  IF ws = <<>> THEN s
  ELSE stack_fanout(stack_fanout_one(s, Head(ws)), Tail(ws))

\* A first loop of _update_stack_link_state that counts a change to UP or
\* to DOWN only: a port that goes to INIT is set and nothing else happens.
stack_port_step_up_down(s, v, p, now, ws) ==
  LET set(next_state) ==
        [s EXCEPT !.stack_state[v][p] = next_state,
                  !.metrics[v].port_stack_state[p] = next_state]
      step(next_state) ==
        IF next_state = "" THEN [w |-> s, n |-> 0]
        ELSE IF next_state \in {STACK_UP, STACK_DOWN}
          THEN [w |-> update_stack_topos(set(next_state), ws,
                                         next_state = STACK_UP, s.dp[v], p),
                n |-> 1]
        ELSE [w |-> set(next_state), n |-> 0]
  IN step(next_stack_link_state(s, v, p, now))

\* The body of the first loop of _update_stack_link_state for one port:
\* the world and the number of stack changes it adds.
stack_port_step(s, v, p, now, ws) ==
  LET set(next_state) ==
        [s EXCEPT !.stack_state[v][p] = next_state,
                  !.metrics[v].port_stack_state[p] = next_state]
      step(next_state) ==
        IF next_state = "" THEN [w |-> s, n |-> 0]
        ELSE IF next_state \in {STACK_UP, STACK_DOWN, STACK_INIT}
          THEN [w |-> update_stack_topos(set(next_state), ws,
                                         next_state = STACK_UP, s.dp[v], p),
                n |-> 1]
        ELSE [w |-> set(next_state), n |-> 0]
  IN step(next_stack_link_state(s, v, p, now))

RECURSIVE stack_ports_loop(_, _, _, _, _, _)
stack_ports_loop(s, v, ps, now, ws, n) ==
  LET rest(r) == stack_ports_loop(r.w, v, Tail(ps), now, ws, n + r.n)
  IN IF ps = <<>> THEN [w |-> s, n |-> n]
     ELSE rest(stack_port_step(s, v, Head(ps), now, ws))

\* Valve._update_stack_link_state
update_stack_link_state(s, v, ports, now, other_valves) ==
  LET fanout(r, ws) == IF r.n # 0 THEN stack_fanout(r.w, ws) ELSE r.w
      links(ws) ==
        fanout(stack_ports_loop(s, v, SortedSeq(ports), now, ws, 0), ws)
  IN links(ValveSeq({v} \cup stacked_valves(s, other_valves)))

\* Valve.fast_state_expire (dyn_lldp_beacon_recv_state, which it clears,
\* only feeds log lines)
fast_state_expire(s, v, now, other_valves) ==
  update_stack_link_state(s, v, StackPorts(s.dp[v]), now, other_valves)

\* Valve._verify_stack_lldp without the DP id: the probe is held correct
\* when the name and the port are those of the configured peer.
verify_stack_lldp_by_name(s, v, p, now, other_valves, remote_dp_id, remote_dp_name, remote_port_id) ==
  LET pc == CPort(s.dp[v], p)
      stack_correct ==
        remote_dp_name = pc.stack_dp /\ remote_port_id = pc.stack_port
      count(a) ==
        IF stack_correct THEN a
        ELSE [a EXCEPT !.metrics[v].stack_cabling_errors = @ + 1]
      record(a) ==
        [a EXCEPT !.probe[v][p] = [last_seen_lldp_time |-> now,
                                    stack_correct |-> stack_correct]]
      received == [s EXCEPT !.metrics[v].stack_probes_received = @ + 1]
  IN IF pc.stack_dp = "" THEN s
     ELSE update_stack_link_state(record(count(received)), v, {p}, now,
                                  other_valves)

\* Valve._verify_stack_lldp; the peer port.stack['dp'] is the DP configured
\* under the name stack_dp.  Of dyn_stack_probe_info the model keeps the
\* two entries the program reads back.
verify_stack_lldp(s, v, p, now, other_valves, remote_dp_id, remote_dp_name, remote_port_id) ==
  LET pc == CPort(s.dp[v], p)
      stack_correct ==
        ~(\/ remote_dp_id # conf[pc.stack_dp].dp_id
          \/ remote_dp_name # conf[pc.stack_dp].name
          \/ remote_port_id # pc.stack_port)
      count(a) ==
        IF stack_correct THEN a
        ELSE [a EXCEPT !.metrics[v].stack_cabling_errors = @ + 1]
      record(a) ==
        [a EXCEPT !.probe[v][p] = [last_seen_lldp_time |-> now,
                                    stack_correct |-> stack_correct]]
      received == [s EXCEPT !.metrics[v].stack_probes_received = @ + 1]
  IN IF pc.stack_dp = "" THEN s
     ELSE update_stack_link_state(record(count(received)), v, {p}, now,
                                  other_valves)

\* Valve.lldp_handler for a packet that parses as LLDP: only a FAUCET
\* beacon (remote_dp_id and remote_port_id set) is verified.
lldp_handler(s, v, p, now, other_valves, remote_dp_id, remote_dp_name, remote_port_id) ==
  IF remote_dp_id # 0 /\ remote_port_id # 0
  THEN verify_stack_lldp(s, v, p, now, other_valves, remote_dp_id,
                         remote_dp_name, remote_port_id)
  ELSE s

\* -------------------------------------------------------------------- LACP
\* Valve.lacp_handler for a PDU that parses (slow-protocols destination and
\* type); pkt is [sys: the actor system, up: lacp_actor_up(pkt)]
lacp_handler(s, v, p, now, pkt) ==
  LET pc == CPort(s.dp[v], p)
      resp == s.lacp_last_resp[v][p]
      has_age == resp # None /\ resp # 0
      age == now - resp
      actor_up == pkt.up
      lacp_state_change == s.lacp_up[v][p] # actor_up
      lacp_pkt_change ==
        s.last_lacp_pkt[v][p] = NoPkt \/ pkt # s.last_lacp_pkt[v][p]
      change(a) ==
        IF lacp_state_change
        THEN Into(IF actor_up = 1 THEN lacp_up_(a, v, p)
                  ELSE lacp_down(a, v, p, FALSE), v)
        ELSE a
      responded(r) ==
        IF r.exc # "" THEN r
        ELSE [Into(r, v) EXCEPT !.lacp_last_resp[v][p] = now]
      respond(a) ==
        IF lacp_pkt_change \/ (has_age /\ age > LacpRespInterval)
        THEN responded(lacp_actions(a, v, pkt, p))
        ELSE a
      updated(a) ==
        IF a.exc # "" THEN a
        ELSE [a EXCEPT !.last_lacp_pkt[v][p] = pkt, !.lacp_updated[v][p] = now]
  IN IF pc.lacp = 0 THEN s ELSE updated(respond(change(s)))

\* dp.lags_up(): the LACP ports whose LACP state is up
lags_up(s, v) ==
  {p \in CPorts(s.dp[v]) : CPort(s.dp[v], p).lacp # 0 /\ s.lacp_up[v][p] = 1}

RECURSIVE lacp_state_expire_loop(_, _, _, _)
\* The loop of _lacp_state_expire over the LACP ports that are up; the age
\* of a port without dyn_lacp_updated_time is now - None, which raises.
lacp_state_expire_loop(s, v, ps, now) ==
  IF ps = <<>> THEN s
  ELSE LET p == Head(ps)
           lacp_age == now - s.lacp_updated[v][p]
       IN IF s.lacp_updated[v][p] = None THEN Raise(s, "TypeError")
          ELSE lacp_state_expire_loop(
                 IF lacp_age > LacpTimeout THEN Into(lacp_down(s, v, p, FALSE), v)
                 ELSE s,
                 v, Tail(ps), now)

\* A _lacp_state_expire that expires nothing.
lacp_state_expire_never(s, v, now) == s

\* Valve._lacp_state_expire
lacp_state_expire(s, v, now) ==
  lacp_state_expire_loop(s, v, SortedSeq(lags_up(s, v)), now)

\* Valve.state_expire: the LACP expiry, then per VLAN the host and route
\* expiry, which extend the entry of self (no host of the model ages out)
state_expire(s, v, now) ==
  LET vlans(a) == IF a.exc = "" /\ CVlans(a.dp[v]) # {} THEN Into(a, v) ELSE a
  IN IF s.running[v] THEN vlans(lacp_state_expire(s, v, now)) ELSE s

\* ------------------------------------------------------------------ reload
\* dp.get_config_changes(logger, new_dp) of the DP with configuration o:
\* a port is changed when it is new or differs in more than its ACL, a VLAN
\* when it is new, its ports differ or one of its ports is changed; the ports
\* of a changed VLAN are changed; a VLAN that is not changed keeps its
\* dynamic state (merged: the VLANs of new_dp that carry the host cache on).
GetConfigChanges(o, n) ==
  LET same_but_acl(p) ==
        [CPort(o, p) EXCEPT !.acl = 0] = [CPort(n, p) EXCEPT !.acl = 0]
      port_changed(p) == p \notin CPorts(o) \/ ~same_but_acl(p)
      changed_vids ==
        {vid \in CVlans(n) :
           \/ vid \notin CVlans(o)
           \/ VlanPorts(o, vid) # VlanPorts(n, vid)
           \/ \E p \in VlanPorts(n, vid) : port_changed(p)}
      changed_ports ==
        {p \in CPorts(n) : port_changed(p)}
          \cup UNION {VlanPorts(n, vid) : vid \in changed_vids}
  IN [deleted_ports |-> CPorts(o) \ CPorts(n),
      changed_ports |-> changed_ports,
      changed_acl_ports |->
        {p \in CPorts(n) \cap CPorts(o) :
           same_but_acl(p) /\ CPort(o, p).acl # CPort(n, p).acl},
      deleted_vids |-> CVlans(o) \ CVlans(n),
      changed_vids |-> changed_vids,
      all_ports_changed |-> changed_ports = CPorts(n),
      merged |-> CVlans(n) \ changed_vids]

\* The dynamic sub-state of a DP object that was just built.
FreshDyn == [running |-> FALSE, up_nos |-> {}, coldstart |-> None]

\* dp.clone_dyn_state(prev_dp): the running flag, the up port numbers and
\* the last cold start time of the outgoing DP
clone_dyn_state(new_dyn, prev_dyn) ==
  [new_dyn EXCEPT !.running = prev_dyn.running,
                  !.up_nos = prev_dyn.up_nos,
                  !.coldstart = prev_dyn.coldstart]

\* A dp_init that replaces self.dp without cloning the dynamic state.
dp_init_noclone(s, v, new_dp) ==
  [s EXCEPT !.dp[v] = new_dp.c,
            !.running[v] = FreshDyn.running,
            !.up_nos[v] = FreshDyn.up_nos,
            !.coldstart[v] = FreshDyn.coldstart]

\* Valve.dp_init(new_dp): new_dp is [c: the configuration, merged: the VIDs
\* whose VLANs carry the outgoing DP's dynamic state].  The Port objects of
\* new_dp and the managers built on it are new.
dp_init(s, v, new_dp) ==
  LET dyn == clone_dyn_state(FreshDyn,
               [running |-> s.running[v], up_nos |-> s.up_nos[v],
                coldstart |-> s.coldstart[v]])
  IN [s EXCEPT !.dp[v] = new_dp.c,
               !.running[v] = dyn.running,
               !.up_nos[v] = dyn.up_nos,
               !.coldstart[v] = dyn.coldstart,
               !.phys_up[v] = [p \in PortNos |-> FALSE],
               !.lacp_up[v] = [p \in PortNos |-> 0],
               !.last_lacp_pkt[v] = [p \in PortNos |-> NoPkt],
               !.lacp_updated[v] = [p \in PortNos |-> None],
               !.lacp_last_resp[v] = [p \in PortNos |-> None],
               !.stack_state[v] = [p \in PortNos |-> STACK_DOWN],
               !.probe[v] = [p \in PortNos |-> NoProbe],
               !.hosts[v] = {h \in @ : h[1] \in new_dp.merged},
               !.topo[v] = {},
               !.packet_in_count_sec[v] = 0,
               !.last_packet_in_sec[v] = 0,
               !.last_advertise_sec[v] = 0,
               !.last_fast_advertise_sec[v] = 0]

\* Valve._pipeline_change: the table features sent at the last connect
\* against those of self.dp; a valve that sends none never sees a change
pipeline_change(s, v) ==
  s.last_pipeline[v] # "" /\ s.last_pipeline[v] # conf[s.dp[v]].pipeline

\* The start of a step of the warm path, with the number of messages built
\* before it.
Step(s, v, name) == Call(s, [f |-> name, v |-> v, p |-> Len(s.acc)])

RECURSIVE acl_cold_start_ports(_, _, _)
\* acl_manager.cold_start_port(port) for each port
acl_cold_start_ports(s, v, ps) ==
  IF ps = <<>> THEN s
  ELSE acl_cold_start_ports(
         Emit(s, <<Msg("acl_cold_start_port", s.dp[v], Head(ps), 0, "")>>),
         v, Tail(ps))

\* An _apply_config_changes that adds every changed port again, up or not.
apply_config_changes_add_all(s, v, new_dp, changes) ==
  LET all_up_port_nos == changes.changed_ports
      deleted_ports(a) ==
        IF changes.deleted_ports # {}
        THEN ports_delete(Step(a, v, "deleted_ports"), v, changes.deleted_ports)
        ELSE a
      deleted_vids(a) ==
        IF changes.deleted_vids # {}
        THEN del_vlans(Step(a, v, "deleted_vids"), v, SortedSeq(changes.deleted_vids))
        ELSE a
      changed_ports_delete(a) ==
        IF changes.changed_ports # {}
        THEN ports_delete(Step(a, v, "changed_ports_delete"), v, changes.changed_ports)
        ELSE a
      swap(a) == dp_init(Step(a, v, "dp_init"), v, new_dp)
      changed_vids(a) ==
        IF changes.changed_vids # {}
        THEN add_vlans(del_vlans(Step(a, v, "changed_vids"), v,
                                 SortedSeq(changes.changed_vids)),
                       v, SortedSeq(changes.changed_vids))
        ELSE a
      changed_ports_add(a) ==
        IF changes.changed_ports # {}
        THEN ports_add(Step(a, v, "changed_ports_add"), v, all_up_port_nos, FALSE)
        ELSE a
      changed_acl_ports(a) ==
        IF has_acls(new_dp.c) /\ changes.changed_acl_ports # {}
        THEN acl_cold_start_ports(Step(a, v, "changed_acl_ports"), v,
                                  SortedSeq(changes.changed_acl_ports))
        ELSE a
  IN IF pipeline_change(s, v) \/ changes.all_ports_changed
     THEN [cold |-> TRUE, w |-> dp_init(s, v, new_dp)]
     ELSE [cold |-> FALSE,
           w |-> changed_acl_ports(changed_ports_add(changed_vids(swap(
                   changed_ports_delete(deleted_vids(deleted_ports(s)))))))]

\* Valve._apply_config_changes: [cold: cold_start, w: the world, whose acc
\* is ofmsgs]
apply_config_changes(s, v, new_dp, changes) ==
  LET all_up_port_nos == changes.changed_ports \cap s.up_nos[v]
      deleted_ports(a) ==
        IF changes.deleted_ports # {}
        THEN ports_delete(Step(a, v, "deleted_ports"), v, changes.deleted_ports)
        ELSE a
      deleted_vids(a) ==
        IF changes.deleted_vids # {}
        THEN del_vlans(Step(a, v, "deleted_vids"), v, SortedSeq(changes.deleted_vids))
        ELSE a
      changed_ports_delete(a) ==
        IF changes.changed_ports # {}
        THEN ports_delete(Step(a, v, "changed_ports_delete"), v, changes.changed_ports)
        ELSE a
      swap(a) == dp_init(Step(a, v, "dp_init"), v, new_dp)
      changed_vids(a) ==
        IF changes.changed_vids # {}
        THEN add_vlans(del_vlans(Step(a, v, "changed_vids"), v,
                                 SortedSeq(changes.changed_vids)),
                       v, SortedSeq(changes.changed_vids))
        ELSE a
      changed_ports_add(a) ==
        IF changes.changed_ports # {}
        THEN ports_add(Step(a, v, "changed_ports_add"), v, all_up_port_nos, FALSE)
        ELSE a
      changed_acl_ports(a) ==
        IF has_acls(new_dp.c) /\ changes.changed_acl_ports # {}
        THEN acl_cold_start_ports(Step(a, v, "changed_acl_ports"), v,
                                  SortedSeq(changes.changed_acl_ports))
        ELSE a
  IN IF pipeline_change(s, v) \/ changes.all_ports_changed
     THEN [cold |-> TRUE, w |-> dp_init(s, v, new_dp)]
     ELSE [cold |-> FALSE,
           w |-> changed_acl_ports(changed_ports_add(changed_vids(swap(
                   changed_ports_delete(deleted_vids(deleted_ports(s)))))))]

\* Valve.reload_config(now, new_dp) with the configuration new_c; the
\* returned list is acc, or None when none is set
reload_config(s, v, now, new_c) ==
  LET restart_type(r) ==
        IF r.cold THEN "cold"
        ELSE IF r.w.running[v] /\ r.w.acc # <<>> THEN "warm"
        ELSE "null"
      ofmsgs(r) ==
        IF r.cold THEN [r.w EXCEPT !.none = r.w.running[v]]
        ELSE IF restart_type(r) = "warm" THEN r.w
        ELSE [r.w EXCEPT !.acc = <<>>]
      counted(a, rt) ==
        IF rt = "cold"
        THEN [a EXCEPT !.metrics[v].faucet_config_reload_cold = @ + 1]
        ELSE IF rt = "warm"
        THEN [a EXCEPT !.metrics[v].faucet_config_reload_warm = @ + 1]
        ELSE a
      restart(r) ==
        Notify(counted(ofmsgs(r), restart_type(r)), "CONFIG_CHANGE", restart_type(r))
      apply(changes) ==
        restart(apply_config_changes(
                  s, v, [c |-> new_c, merged |-> changes.merged], changes))
  IN apply(GetConfigChanges(s.dp[v], new_c))

\* ------------------------------------------------------- sending messages
\* Valve.USE_BARRIERS of the Valve and TfmValve classes
USE_BARRIERS == TRUE
\* maxlen of the deque recent_ofmsgs
RingSize == 32

\* The messages that delete flows, meters or groups.
FlowDeletes ==
  {"flowdel_all", "flowdel_in_port", "flowdel_strict", "flowdel_vlan",
   "meterdel", "groupdel_all", "controller_pps_meterdel", "host_del_port"}

\* valve_of.valve_flowreorder(input_ofmsgs, use_barriers): the deletes come
\* first, in their order, then a barrier if barriers are used, then the
\* other messages in their order
valve_flowreorder(input_ofmsgs, use_barriers) ==
  LET is_delete(m) == m.k \in FlowDeletes
      is_other(m) == m.k \notin FlowDeletes
      barrier(deletes) ==
        IF use_barriers /\ deletes # <<>>
        THEN deletes \o <<[k |-> "barrier", port |-> 0, vid |-> 0, prio |-> "",
                           dp |-> deletes[1].dp]>>
        ELSE deletes
  IN barrier(SelectSeq(input_ofmsgs, is_delete)) \o SelectSeq(input_ofmsgs, is_other)

\* recent_ofmsgs.extend(msgs) of a deque with maxlen RingSize: the oldest
\* entries fall out; a prepared message has no xid yet
extend(recent, msgs) ==
  LET q == recent \o [i \in DOMAIN msgs |-> [msg |-> msgs[i], xid |-> None]]
  IN IF Len(q) > RingSize THEN SubSeq(q, Len(q) - RingSize + 1, Len(q)) ELSE q

\* A ring that drops its newest entries when it is full.
extend_keep_oldest(recent, msgs) ==
  LET q == recent \o [i \in DOMAIN msgs |-> [msg |-> msgs[i], xid |-> None]]
  IN IF Len(q) > RingSize THEN SubSeq(q, 1, RingSize) ELSE q

\* A prepare_send_flows whose ring keeps the oldest messages.
prepare_send_flows_keep_oldest(s, v, flow_msgs) ==
  LET prepared(reordered) ==
        [s EXCEPT !.metrics[v].of_flowmsgs_sent = @ + Len(reordered),
                  !.recent_ofmsgs[v] = extend_keep_oldest(@, reordered),
                  !.acc = reordered]
  IN prepared(valve_flowreorder(flow_msgs, USE_BARRIERS))

\* Valve.prepare_send_flows(flow_msgs) for a list; the list returned is acc
prepare_send_flows(s, v, flow_msgs) ==
  LET prepared(reordered) ==
        [s EXCEPT !.metrics[v].of_flowmsgs_sent = @ + Len(reordered),
                  !.recent_ofmsgs[v] = extend(@, reordered),
                  !.acc = reordered]
  IN prepared(valve_flowreorder(flow_msgs, USE_BARRIERS))

\* ryu_dp.send_msg on each prepared message: the datapath session numbers
\* the messages it sends, here by their rank among the messages the Valve
\* prepared; the entries of the ring are the messages sent, so they carry
\* the xid from then on
send_msgs(s, v) ==
  LET n == Len(s.acc)
      first == s.metrics[v].of_flowmsgs_sent - n
      skip == Len(s.recent_ofmsgs[v]) - n
  IN [s EXCEPT !.recent_ofmsgs[v] =
                  [j \in DOMAIN @ |->
                     IF j > skip THEN [@[j] EXCEPT !.xid = first + (j - skip)]
                     ELSE @[j]],
               !.acc = <<>>]

\* A send_flows that drops a None list.
send_flows_keep(s, v, flow_msgs_none, flow_msgs) ==
  IF flow_msgs_none THEN s ELSE send_msgs(prepare_send_flows(s, v, flow_msgs), v)

\* Valve.send_flows(ryu_dp, flow_msgs): None closes the session
send_flows(s, v, flow_msgs_none, flow_msgs) ==
  IF flow_msgs_none THEN datapath_disconnect(s, v)
  ELSE send_msgs(prepare_send_flows(s, v, flow_msgs), v)

\* The messages that are no flow mods: packet-outs, table features, meters,
\* groups, barriers and the configuration of asynchronous messages.
NotFlowMods ==
  {"lacp_pdu", "table_features", "initialise_tables", "faucet_async",
   "barrier", "meter_entry", "meterdel", "groupdel_all",
   "controller_pps_meteradd", "controller_pps_meterdel"}

\* The flow a flow mod installs: its table and match (k, port, vid, prio)
\* and, in body, what its instructions depend on: the ports of the VLAN for
\* the flood rules and the ACL of the port for the ACL rules, both as the
\* configuration the message was built from has them.
flow_of(m) ==
  LET flood == m.k \in {"flood_add_vlan", "flood_update_vlan"}
      acl == m.k \in {"acl_port", "acl_cold_start_port"}
  IN [k |-> IF flood THEN "flood" ELSE IF acl THEN "acl" ELSE m.k,
      port |-> m.port, vid |-> m.vid, prio |-> m.prio,
      body |-> IF flood THEN VlanPorts(m.dp, m.vid)
               ELSE IF acl THEN {CPort(m.dp, m.port).acl}
               ELSE {}]

\* What the flow table of a datapath holds after flow mod m: a delete takes
\* the flows its match covers (in_port for the flows of a port, out_port
\* for the flows towards the hosts of a port, the VLAN for the flows of a
\* VLAN, the exact match and priority for a strict delete), a flood update
\* modifies the flood flow of its match where the table holds one, and any
\* other flow mod replaces the flow of its match and priority.
datapath_flow_mod(flows, m) ==
  LET towards_host(f) == f.k = "learn_dst"
      from_host(f) == f.k = "learn_src"
      same(f, g) ==
        f.k = g.k /\ f.port = g.port /\ f.vid = g.vid /\ f.prio = g.prio
      add(g) == {f \in flows : ~same(f, g)} \cup {g}
  IN IF m.k \in NotFlowMods THEN flows
     ELSE IF m.k = "flowdel_all" THEN {}
     ELSE IF m.k = "flowdel_in_port"
       THEN {f \in flows : f.port # m.port \/ towards_host(f)}
     ELSE IF m.k = "host_del_port"
       THEN {f \in flows :
               f.port # m.port \/ ~(towards_host(f) \/ from_host(f))}
     ELSE IF m.k = "flowdel_vlan" THEN {f \in flows : f.vid # m.vid}
     ELSE IF m.k = "flowdel_strict"
       THEN {f \in flows :
               ~(f.k = "flowdrop" /\ f.port = m.port /\ f.prio = m.prio)}
     ELSE IF m.k = "flood_update_vlan"
       THEN {IF same(f, flow_of(m)) THEN flow_of(m) ELSE f : f \in flows}
     ELSE add(flow_of(m))

RECURSIVE datapath_flow_mods(_, _)
\* The flow table after the messages msgs, in their order.
datapath_flow_mods(flows, msgs) ==
  IF msgs = <<>> THEN flows
  ELSE datapath_flow_mods(datapath_flow_mod(flows, Head(msgs)), Tail(msgs))

\* valve_of.OFERROR_TYPE_CODE: the error types that decode, and their codes
OFERROR_TYPE_CODE ==
  (5 :> [name |-> "OFPET_FLOW_MOD_FAILED",
         codes |-> (0 :> "OFPFMFC_UNKNOWN" @@ 1 :> "OFPFMFC_TABLE_FULL")])

\* Valve.oferror(msg), msg = [type, code, xid]: the line logged names the
\* first message of the ring with the xid of the error, and the type and
\* the code as far as they decode (the KeyError of a lookup is caught)
oferror(s, v, msg) ==
  LET same_xid(m) == m.xid = msg.xid
      caused_by(orig_msgs) == IF orig_msgs # <<>> THEN <<orig_msgs[1]>> ELSE <<>>
      known == msg.type \in DOMAIN OFERROR_TYPE_CODE
      error_type == IF known THEN OFERROR_TYPE_CODE[msg.type].name ELSE "UNKNOWN"
      error_code ==
        IF known /\ msg.code \in DOMAIN OFERROR_TYPE_CODE[msg.type].codes
        THEN OFERROR_TYPE_CODE[msg.type].codes[msg.code]
        ELSE "UNKNOWN"
  IN Call([s EXCEPT !.metrics[v].of_errors = @ + 1],
          [f |-> "logger.error", type |-> error_type, code |-> error_code,
           caused_by |-> caused_by(SelectSeq(s.recent_ofmsgs[v], same_xid))])

RECURSIVE route_resolve_gateways(_, _, _)
\* route_manager.resolve_gateways(vlan, now) for each VLAN: a VLAN with a
\* virtual IP address has its gateways resolved again
route_resolve_gateways(s, v, vids) ==
  IF vids = <<>> THEN s
  ELSE route_resolve_gateways(
         IF Head(vids) \in conf[s.dp[v]].vips
         THEN Emit(s, <<Msg("resolve_gateway", s.dp[v], 0, Head(vids), "")>>)
         ELSE s,
         v, Tail(vids))

\* A resolve_gateways that does not ask whether the datapath is running.
resolve_gateways_always(s, v, now) ==
  LET out(a) == IF a.acc # <<>> THEN Into(a, v) ELSE a
  IN out(route_resolve_gateways(s, v, SortedSeq(CVlans(s.dp[v]))))

\* Valve.resolve_gateways: {self: ofmsgs} when there are messages, else {}
resolve_gateways(s, v, now) ==
  LET out(a) == IF a.acc # <<>> THEN Into(a, v) ELSE a
  IN IF s.running[v]
     THEN out(route_resolve_gateways(s, v, SortedSeq(CVlans(s.dp[v]))))
     ELSE s

\* ------------------------------------------------------------ packet-ins
\* A rate_limit_packet_ins that counts on from one second to the next.
rate_limit_packet_ins_on(s, v, now) ==
  LET n == conf[s.dp[v]].ignore_learn_ins
      decide(a) ==
        IF n # 0 /\ a.packet_in_count_sec[v] % n = 0
        THEN [w |-> [a EXCEPT !.metrics[v].of_ignored_packet_ins = @ + 1],
              limited |-> TRUE]
        ELSE [w |-> a, limited |-> FALSE]
  IN decide([s EXCEPT !.last_packet_in_sec[v] = now,
                      !.packet_in_count_sec[v] = @ + 1])

\* Valve.rate_limit_packet_ins(now): the world and the value returned
rate_limit_packet_ins(s, v, now) ==
  LET n == conf[s.dp[v]].ignore_learn_ins
      restart(a) ==
        IF a.last_packet_in_sec[v] # now
        THEN [a EXCEPT !.last_packet_in_sec[v] = now,
                       !.packet_in_count_sec[v] = 0]
        ELSE a
      count(a) == [a EXCEPT !.packet_in_count_sec[v] = @ + 1]
      decide(a) ==
        IF n # 0 /\ a.packet_in_count_sec[v] % n = 0
        THEN [w |-> [a EXCEPT !.metrics[v].of_ignored_packet_ins = @ + 1],
              limited |-> TRUE]
        ELSE [w |-> a, limited |-> FALSE]
  IN decide(count(restart(s)))

\* --------------------------------------------------------- periodic tasks
\* An advertise that runs whatever the time since its last run.
advertise_ungated(s, v, now) == [s EXCEPT !.last_advertise_sec[v] = now]

\* Valve.advertise: nothing without an interval or before the interval has
\* passed since _last_advertise_sec; no VLAN of the model has a VIP its route
\* managers advertise, so the map of a run is empty as well
advertise(s, v, now) ==
  LET interval == conf[s.dp[v]].advertise_interval
  IN IF interval = 0 \/ now - s.last_advertise_sec[v] < interval THEN s
     ELSE [s EXCEPT !.last_advertise_sec[v] = now]

\* dp.lacp_active_ports
lacp_active_ports(c) ==
  {p \in CPorts(c) : CPort(c, p).lacp # 0 /\ CPort(c, p).lacp_active}

RECURSIVE fast_advertise_lacp(_, _, _)
\* The loop of fast_advertise over the active LACP ports: a PDU on each port
\* that is running (enabled and physically up)
fast_advertise_lacp(s, v, ps) ==
  LET pdu(a, p) ==
        IF CPort(a.dp[v], p).enabled /\ a.phys_up[v][p]
        THEN lacp_actions(a, v, a.last_lacp_pkt[v][p], p)
        ELSE a
  IN IF ps = <<>> \/ s.exc # "" THEN s
     ELSE fast_advertise_lacp(pdu(s, Head(ps)), v, Tail(ps))

\* Valve.fast_advertise: gated like advertise, by fast_advertise_interval and
\* _last_fast_advertise_sec; no port of the model sends LLDP beacons
fast_advertise(s, v, now) ==
  LET interval == conf[s.dp[v]].fast_advertise_interval
      return(a) == IF a.acc # <<>> THEN Into(a, v) ELSE a
  IN IF interval = 0 \/ now - s.last_fast_advertise_sec[v] < interval THEN s
     ELSE return(fast_advertise_lacp(
                   [s EXCEPT !.last_fast_advertise_sec[v] = now], v,
                   SortedSeq(lacp_active_ports(s.dp[v]))))

\* ---------------------------------------------------------------- learning
\* An OpenFlow packet-in: cookie, reason, match (whether it has one) and
\* in_port (0: none) of the message; data is "" (empty), "junk" (no Ethernet
\* frame parses) or "eth", and then vid (None: untagged), eth_src, eth_dst,
\* eth_type and the LACP or LLDP payload are what parse_packet_in_pkt finds.
NoLldp == [remote_dp_id |-> 0, remote_dp_name |-> "", remote_port_id |-> 0]
HostPacketIn(p, vid, mac) ==
  [cookie |-> DefaultDp.cookie, reason |-> "OFPR_ACTION", match |-> TRUE,
   in_port |-> p, data |-> "eth", vid |-> vid, eth_src |-> mac,
   eth_dst |-> "ff:ff:ff:ff:ff:ff", eth_type |-> "ip",
   lacp |-> NoPkt, lldp |-> NoLldp]

\* valve_packet.mac_addr_is_unicast and mac_addr_all_zeros over the
\* addresses of the model (host addresses such as "m1" are unicast)
MulticastMacs == {"ff:ff:ff:ff:ff:ff", "01:80:c2:00:00:02", "01:80:c2:00:00:0e"}
mac_addr_is_unicast(mac) == mac \notin MulticastMacs
mac_addr_all_zeros(mac) == mac = "00:00:00:00:00:00"

\* valve_packet.int_from_mac: only the two addresses that spell a VID of the
\* model decode to one, every other address to a number that is no VID
int_from_mac(mac) ==
  IF mac = "00:00:00:00:00:64" THEN 100
  ELSE IF mac = "00:00:00:00:00:c8" THEN 200
  ELSE 4096

\* PacketMeta: none for Python's None; vid is the VID of pkt_meta.vlan,
\* None without a VLAN
NoMeta ==
  [none |-> TRUE, port |-> 0, vid |-> None, eth_src |-> "", eth_dst |-> "",
   eth_type |-> "", lacp |-> NoPkt, lldp |-> NoLldp]

\* Valve.parse_rcv_packet: a packet on the global VLAN gets the VLAN that
\* its destination address spells, if the DP has it
parse_rcv_packet(s, v, msg) ==
  LET c == s.dp[v]
      global == msg.vid = conf[c].global_vlan
      dst_vid == int_from_mac(msg.eth_dst)
      vlan(vid) == IF vid # None /\ vid \in CVlans(c) THEN vid ELSE None
      dst(vid) == IF vlan(vid) # None THEN "faucet" ELSE msg.eth_dst
  IN [none |-> FALSE, port |-> msg.in_port,
      vid |-> IF global THEN vlan(dst_vid) ELSE vlan(msg.vid),
      eth_src |-> msg.eth_src,
      eth_dst |-> IF global THEN dst(dst_vid) ELSE msg.eth_dst,
      eth_type |-> msg.eth_type, lacp |-> msg.lacp, lldp |-> msg.lldp]

\* A parse_pkt_meta without the VLAN membership test of stacked DPs.
parse_pkt_meta_any_port(s, v, msg) ==
  LET c == s.dp[v]
  IN IF ~s.running[v] THEN NoMeta
     ELSE IF conf[c].strict_packet_in_cookie /\ conf[c].cookie # msg.cookie
       THEN NoMeta
     ELSE IF msg.reason # "OFPR_ACTION" THEN NoMeta
     ELSE IF ~msg.match THEN NoMeta
     ELSE IF msg.in_port = 0 \/ ~port_no_valid(c, msg.in_port) THEN NoMeta
     ELSE IF msg.data = "" THEN NoMeta
     ELSE IF msg.data = "junk" THEN NoMeta
     ELSE IF /\ msg.vid # None
             /\ msg.vid \notin CVlans(c)
             /\ msg.vid # conf[c].global_vlan THEN NoMeta
     ELSE IF ~mac_addr_is_unicast(msg.eth_src) THEN NoMeta
     ELSE IF mac_addr_all_zeros(msg.eth_src) THEN NoMeta
     ELSE parse_rcv_packet(s, v, msg)

\* Valve.parse_pkt_meta: the PacketMeta of a packet-in, NoMeta when the
\* packet-in is rejected
parse_pkt_meta(s, v, msg) ==
  LET c == s.dp[v]
      member(pkt_meta) ==
        IF /\ CPort(c, pkt_meta.port).stack_dp = ""
           /\ pkt_meta.vid # None
           /\ pkt_meta.vid \notin PortVids(CPort(c, pkt_meta.port))
        THEN NoMeta ELSE pkt_meta
  IN IF ~s.running[v] THEN NoMeta
     ELSE IF conf[c].strict_packet_in_cookie /\ conf[c].cookie # msg.cookie
       THEN NoMeta
     ELSE IF msg.reason # "OFPR_ACTION" THEN NoMeta
     ELSE IF ~msg.match THEN NoMeta
     ELSE IF msg.in_port = 0 \/ ~port_no_valid(c, msg.in_port) THEN NoMeta
     ELSE IF msg.data = "" THEN NoMeta
     ELSE IF msg.data = "junk" THEN NoMeta
     ELSE IF /\ msg.vid # None
             /\ msg.vid \notin CVlans(c)
             /\ msg.vid # conf[c].global_vlan THEN NoMeta
     ELSE IF ~mac_addr_is_unicast(msg.eth_src) THEN NoMeta
     ELSE IF mac_addr_all_zeros(msg.eth_src) THEN NoMeta
     ELSE IF conf[c].stack_root_name # ""
       THEN member(parse_rcv_packet(s, v, msg))
     ELSE parse_rcv_packet(s, v, msg)

\* dp.shortest_path_port(dp_name) in a stack of two DPs: the stack port
\* cabled to that DP, 0 for None
shortest_path_port(c, name) ==
  LET ps == {p \in StackPorts(c) : CPort(c, p).stack_dp = name}
  IN IF ps = {} THEN 0 ELSE CHOOSE p \in ps : \A q \in ps : p <= q

\* flood_manager.edge_learn_port(stacked_valves, pkt_meta): the port of the
\* packet unless it is a stack port; on a stack port the port towards the DP
\* that learned the host on one of its own ports, 0 (None) when no DP has
edge_learn_port(s, w, others, p, vid, mac) ==
  LET c == s.dp[w]
      edge == {x \in stacked_valves(s, others) :
                 \E h \in s.hosts[x] :
                   /\ h[1] = vid /\ h[3] = mac
                   /\ CPort(s.dp[x], h[2]).stack_dp = ""}
      towards(x) == shortest_path_port(c, conf[s.dp[x]].name)
  IN IF CPort(c, p).stack_dp = "" THEN p
     ELSE IF edge = {} THEN 0
     ELSE towards(CHOOSE x \in edge : TRUE)

\* Valve.learn_host: a host that is new on the learn port gets its two flows
\* and replaces the cache entry of its address
learn_host(s, w, now, others, p, vid, mac) ==
  LET flows(a, port) ==
        Emit(a, <<Msg("learn_src", a.dp[w], port, vid, "low_priority"),
                  Msg("learn_dst", a.dp[w], port, vid, "low_priority")>>)
      cache(a, port) ==
        [a EXCEPT !.hosts[w] =
           {h \in @ : ~(h[1] = vid /\ h[3] = mac)} \cup {<<vid, port, mac>>}]
      learn(port) ==
        IF port = 0 \/ <<vid, port, mac>> \in s.hosts[w] THEN s
        ELSE Notify(flows(cache(s, port), port), "L2_LEARN", mac)
  IN learn(edge_learn_port(s, w, others, p, vid, mac))

\* The addresses of FAUCET itself (vlan.faucet_mac, dp.faucet_dp_mac).
FaucetMacs == {"faucet"}

\* The EtherTypes a route manager handles (CONTROL_ETH_TYPES).
RoutedEthTypes == {"arp", "ip"}

\* Valve.router_rcv_packet: nothing for a VLAN without virtual addresses or
\* a packet no route manager handles, else what the route manager of the
\* packet returns for it
router_rcv_packet(s, w, now, p, vid, eth_type) ==
  IF vid \notin conf[s.dp[w]].vips THEN s
  ELSE IF eth_type \notin RoutedEthTypes THEN s
  ELSE Emit(Call(s, [f |-> "router_rcv_packet", v |-> w, p |-> p]),
            <<Msg("route", s.dp[w], p, vid, "")>>)

\* host_manager.ban_rules(pkt_meta): a source address that is not in the
\* host cache of the VLAN, on a port that holds as many hosts as it may, is
\* banned from learning and counted (port.dyn_learn_ban_count, which the
\* gauge port_learn_bans exports)
ban_rules(s, v, p, vid, mac) ==
  LET c == s.dp[v]
      cached == \E h \in s.hosts[v] : h[1] = vid /\ h[3] = mac
      hosts_count == Cardinality({h \in s.hosts[v] : h[2] = p})
  IN IF /\ ~cached
        /\ CPort(c, p).max_hosts # 0
        /\ hosts_count = CPort(c, p).max_hosts
     THEN Emit([s EXCEPT !.metrics[v].port_learn_bans[p] = @ + 1],
               <<Msg("ban_learning", c, p, 0, "")>>)
     ELSE s

\* A handle_pkt that runs the router before it learns the host.
handle_pkt_router_first(s, w, now, others, p, vid, mac, eth_type) ==
  LET learn(a) == learn_host(a, w, now, others, p, vid, mac)
  IN Into(learn(router_rcv_packet(s, w, now, p, vid, eth_type)), w)

\* handle_pkt of _vlan_rcv_packet for valve w: learn_host, then
\* router_rcv_packet; router_learn_host adds nothing in the model
handle_pkt(s, w, now, others, p, vid, mac, eth_type) ==
  LET route(a) == router_rcv_packet(a, w, now, p, vid, eth_type)
  IN Into(route(learn_host(s, w, now, others, p, vid, mac)), w)

RECURSIVE multi_dp_learn(_, _, _, _, _, _, _, _)
\* The loop of _vlan_rcv_packet over the other stacked valves ws: each one
\* that has a stack port towards the DP of v and has the VLAN handles the
\* packet as if received on that port
multi_dp_learn(s, v, ws, all, now, vid, mac, eth_type) ==
  LET w == Head(ws)
      stack_port == shortest_path_port(s.dp[w], conf[s.dp[v]].name)
      learn(a, port) ==
        IF port # 0 /\ vid \in CVlans(a.dp[w])
        THEN handle_pkt(a, w, now, all \ {w}, port, vid, mac, eth_type)
        ELSE a
  IN IF ws = <<>> THEN s
     ELSE multi_dp_learn(learn(s, stack_port), v, Tail(ws), all, now, vid,
                         mac, eth_type)

\* A _vlan_rcv_packet that learns on the other stacked valves whether or
\* not the DP learns routes across the stack.
rcv_packet_always(s, v, now, others, pkt_meta) ==
  handle_pkt(
    multi_dp_learn(s, v, ValveSeq(stacked_valves(s, others)),
                   {v} \cup stacked_valves(s, others), now,
                   pkt_meta.vid, pkt_meta.eth_src, pkt_meta.eth_type),
    v, now, others, pkt_meta.port, pkt_meta.vid, pkt_meta.eth_src,
    pkt_meta.eth_type)

\* Valve._non_vlan_rcv_packet: the LACP handler on a LACP port and, if it
\* returns an empty map, the LLDP handler; lacp_handler acts on
\* slow-protocols frames and lldp_handler on LLDP frames only
non_vlan_rcv_packet(s, v, now, others, pkt_meta) ==
  LET p == pkt_meta.port
      is_lacp ==
        /\ pkt_meta.eth_dst = "01:80:c2:00:00:02"
        /\ pkt_meta.eth_type = "slow"
      lldp(a) ==
        IF pkt_meta.eth_type = "lldp"
        THEN lldp_handler(a, v, p, now, others, pkt_meta.lldp.remote_dp_id,
                          pkt_meta.lldp.remote_dp_name,
                          pkt_meta.lldp.remote_port_id)
        ELSE a
      after_lacp(a) == IF a.keys # {} \/ a.exc # "" THEN a ELSE lldp(a)
      lacp(a) ==
        IF CPort(a.dp[v], p).lacp # 0 /\ is_lacp
        THEN after_lacp(lacp_handler(a, v, p, now, pkt_meta.lacp))
        ELSE lldp(a)
  IN lacp([s EXCEPT !.metrics[v].of_non_vlan_packet_ins = @ + 1])

\* A _vlan_rcv_packet that handles the packet whatever ban_rules returned.
vlan_rcv_packet_banned_too(s, v, now, others, p, vid, mac, eth_type) ==
  LET c == s.dp[v]
      peer_running ==
        \E x \in others :
          conf[s.dp[x]].name = CPort(c, p).stack_dp /\ s.running[x]
      self(a) == handle_pkt(a, v, now, others, p, vid, mac, eth_type)
      peers(a) ==
        multi_dp_learn(a, v, ValveSeq(stacked_valves(a, others)),
                       {v} \cup stacked_valves(a, others), now, vid, mac,
                       eth_type)
      route(a) ==
        IF ~conf[c].stack_route_learning THEN self(a)
        ELSE IF CPort(c, p).stack_dp # "" /\ peer_running /\ mac \notin FaucetMacs
          THEN a
        ELSE self(peers(a))
  IN route(ban_rules([s EXCEPT !.metrics[v].of_vlan_packet_ins = @ + 1],
                     v, p, vid, mac))

\* Valve._vlan_rcv_packet: the ban rules alone when there are any, else the
\* packet is handled by the other stacked valves and by this one
vlan_rcv_packet(s, v, now, others, p, vid, mac, eth_type) ==
  LET c == s.dp[v]
      peer_running ==
        \E x \in others :
          conf[s.dp[x]].name = CPort(c, p).stack_dp /\ s.running[x]
      self(a) == handle_pkt(a, v, now, others, p, vid, mac, eth_type)
      peers(a) ==
        multi_dp_learn(a, v, ValveSeq(stacked_valves(a, others)),
                       {v} \cup stacked_valves(a, others), now, vid, mac,
                       eth_type)
      route(a) ==
        IF ~conf[c].stack_route_learning THEN self(a)
        ELSE IF CPort(c, p).stack_dp # "" /\ peer_running /\ mac \notin FaucetMacs
          THEN a
        ELSE self(peers(a))
      banned(a) == IF a.acc # <<>> THEN Into(a, v) ELSE route(a)
  IN banned(ban_rules([s EXCEPT !.metrics[v].of_vlan_packet_ins = @ + 1],
                      v, p, vid, mac))

\* Valve.rcv_packet: a packet without a VLAN takes the non-VLAN path
rcv_packet(s, v, now, others, pkt_meta) ==
  IF pkt_meta.vid = None
  THEN non_vlan_rcv_packet(s, v, now, others, pkt_meta)
  ELSE vlan_rcv_packet(s, v, now, others, pkt_meta.port, pkt_meta.vid,
                       pkt_meta.eth_src, pkt_meta.eth_type)

\* vlan.hosts_count() and port.hosts_count(vlans=[vlan]), which the gauges
\* vlan_hosts_learned and port_vlan_hosts_learned export
vlan_hosts_learned(hs, vid) == Cardinality({h \in hs : h[1] = vid})
port_vlan_hosts_learned(hs, p, vid) ==
  Cardinality({h \in hs : h[1] = vid /\ h[2] = p})

\* -------------------------------------------------------------- the actions
NoLast == [op |-> "init", v |-> "", p |-> 0, now |-> 0, c |-> "", x |-> 0]
Last(op, v, p, now, c, x) ==
  [op |-> op, v |-> v, p |-> p, now |-> now, c |-> c, x |-> x]

\* The state after the Valve objects vs were constructed with the DPs dps.
InitWith(vs, dps, tfms) ==
  /\ valves = vs
  /\ tfm = tfms
  /\ conf = Configs
  /\ dp = dps
  /\ running = [v \in vs |-> FALSE]
  /\ up_nos = [v \in vs |-> {}]
  /\ coldstart = [v \in vs |-> None]
  /\ last_pipeline = [v \in vs |-> ""]
  /\ phys_up = [v \in vs |-> [p \in PortNos |-> FALSE]]
  /\ lacp_up = [v \in vs |-> [p \in PortNos |-> 0]]
  /\ last_lacp_pkt = [v \in vs |-> [p \in PortNos |-> NoPkt]]
  /\ lacp_updated = [v \in vs |-> [p \in PortNos |-> None]]
  /\ lacp_last_resp = [v \in vs |-> [p \in PortNos |-> None]]
  /\ stack_state = [v \in vs |-> [p \in PortNos |-> STACK_DOWN]]
  /\ probe = [v \in vs |-> [p \in PortNos |-> NoProbe]]
  /\ hosts = [v \in vs |-> {}]
  /\ topo = [v \in vs |-> {}]
  /\ metrics = [v \in vs |-> InitMetrics]
  /\ last_advertise_sec = [v \in vs |-> 0]
  /\ last_fast_advertise_sec = [v \in vs |-> 0]
  /\ last_packet_in_sec = [v \in vs |-> 0]
  /\ packet_in_count_sec = [v \in vs |-> 0]
  /\ recent_ofmsgs = [v \in vs |-> <<>>]
  /\ datapath = [v \in vs |-> NoFlows]
  /\ reloads = 0
  /\ clock = 0
  /\ ret = [none |-> FALSE, keys |-> {}, by |-> [v \in vs |-> <<>>]]
  /\ raised = ""
  /\ notes = <<>>
  /\ calls = <<>>
  /\ last = NoLast

\* Time passes, up to `max`; the record of the last call is dropped.
TickTo(max) ==
  /\ clock < max
  /\ clock' = clock + 1
  /\ ret' = [none |-> FALSE, keys |-> {}, by |-> [v \in valves |-> <<>>]]
  /\ raised' = ""
  /\ notes' = <<>>
  /\ calls' = <<>>
  /\ last' = Last("tick", "", 0, clock + 1, "", 0)
  /\ UNCHANGED <<valves, tfm, conf, dp, running, up_nos, coldstart, last_pipeline,
                 phys_up, lacp_up, last_lacp_pkt, lacp_updated, lacp_last_resp,
                 stack_state, probe, hosts, topo, metrics, last_advertise_sec,
                 last_fast_advertise_sec, last_packet_in_sec,
                 packet_in_count_sec, recent_ofmsgs, datapath, reloads>>

Tick == TickTo(MaxNow)

\* The datapath of v connects, with the ports in up discovered up.
ConnectTo(max, v, up) ==
  /\ metrics[v].of_dp_connections < max
  /\ Return(Into(datapath_connect(World, v, clock, up), v),
            Last("datapath_connect", v, 0, clock, "", 0))
  /\ UNCHANGED <<reloads, clock>>

Connect(v, up) == ConnectTo(MaxConnects, v, up)

\* The datapath of v disconnects.
Disconnect(v) ==
  /\ metrics[v].of_dp_disconnections < MaxConnects
  /\ Return(datapath_disconnect(World, v),
            Last("datapath_disconnect", v, 0, clock, "", 0))
  /\ UNCHANGED <<reloads, clock>>

\* An LLDP packet that names (remote_dp_id, remote_dp_name, remote_port_id)
\* is received on port p of v; parse_pkt_meta drops packets of a DP that is
\* not running.
RcvLldpFrom(v, p, remote_dp_id, remote_dp_name, remote_port_id) ==
  /\ running[v]
  /\ port_no_valid(dp[v], p)
  /\ CPort(dp[v], p).lacp = 0
  /\ metrics[v].stack_probes_received < MaxProbes
  /\ Return(lldp_handler(World, v, p, clock, valves \ {v}, remote_dp_id,
                         remote_dp_name, remote_port_id),
            Last("lldp_handler", v, p, clock, remote_dp_name, remote_port_id))
  /\ UNCHANGED <<reloads, clock>>

\* The beacon of the DP configured as remote_dp_name, from its port
\* remote_port_id.
RcvLldp(v, p, remote_dp_name, remote_port_id) ==
  RcvLldpFrom(v, p, conf[remote_dp_name].dp_id, remote_dp_name,
              remote_port_id)

\* The periodic fast_state_expire of v.
FastStateExpire(v) ==
  /\ Return(fast_state_expire(World, v, clock, valves \ {v}),
            Last("fast_state_expire", v, 0, clock, "", 0))
  /\ UNCHANGED <<reloads, clock>>

\* A LACP PDU is received on port p of v.
RcvLacp(v, p, pkt) ==
  /\ running[v]
  /\ port_no_valid(dp[v], p)
  /\ CPort(dp[v], p).lacp # 0
  /\ Return(lacp_handler(World, v, p, clock, pkt),
            Last("lacp_handler", v, p, clock, "", pkt.up))
  /\ UNCHANGED <<reloads, clock>>

\* ports_add(port_nums, cold_start) is called on v; x records port_nums,
\* a bit for each port number.
PortsAdd(v, port_nums, cold_start) ==
  LET bit(p) == IF p \in port_nums THEN 2 ^ (p - 1) ELSE 0
      return(s) ==
        Commit(s, RetList(s, v),
               Last("ports_add", v, 0, clock,
                    IF cold_start THEN "cold_start" ELSE "",
                    bit(1) + bit(2) + bit(3)))
  IN /\ return(ports_add(World, v, port_nums, cold_start))
     /\ UNCHANGED <<reloads, clock>>

\* The stack port p of v is taken down by its administrator
\* (port.stack_admin_down()).
StackAdminDown(v, p) ==
  /\ CPort(dp[v], p).stack_dp # ""
  /\ stack_state[v][p] # STACK_ADMIN_DOWN
  /\ Return([World EXCEPT !.stack_state[v][p] = STACK_ADMIN_DOWN],
            Last("stack_admin_down", v, p, clock, "", 0))
  /\ UNCHANGED <<reloads, clock>>

\* The periodic state_expire of v.
StateExpire(v) ==
  /\ Return(state_expire(World, v, clock),
            Last("state_expire", v, 0, clock, "", 0))
  /\ UNCHANGED <<reloads, clock>>

\* The datapath of v reports the status of port p: the reason of the message
\* and whether its state bits read up.
PortStatus(v, p, reason, port_status) ==
  /\ Return(port_status_handler(World, v, p, reason, port_status),
            Last("port_status_handler", v, p, clock, reason,
                 IF port_status THEN 1 ELSE 0))
  /\ UNCHANGED <<reloads, clock>>

\* The packet-in handler of the application asks v whether to drop the
\* packet-in it is about to parse; x records the answer.
RateLimitPacketIns(v) ==
  LET return(r) ==
        Return(r.w, Last("rate_limit_packet_ins", v, 0, clock, "",
                         IF r.limited THEN 1 ELSE 0))
  IN /\ last_packet_in_sec[v] # clock \/ packet_in_count_sec[v] < MaxPacketIns
     /\ return(rate_limit_packet_ins(World, v, clock))
     /\ UNCHANGED <<reloads, clock>>

\* The caller has v prepare the list msgs without sending it (x: its length).
PrepareSendFlows(v, msgs) ==
  LET return(s) ==
        Commit(s, RetList(s, v),
               Last("prepare_send_flows", v, 0, clock, "", Len(msgs)))
  IN /\ metrics[v].of_flowmsgs_sent < MaxFlowmsgs
     /\ return(prepare_send_flows(World, v, msgs))
     /\ UNCHANGED <<reloads, clock>>

\* The caller hands the list msgs to send_flows of v (x: its length).
SendFlowMsgs(v, msgs) ==
  /\ metrics[v].of_flowmsgs_sent < MaxFlowmsgs
  /\ Return(send_flows(World, v, FALSE, msgs),
            Last("send_flows", v, 0, clock, "", Len(msgs)))
  /\ UNCHANGED <<reloads, clock>>

\* The datapath of v reports the error msg (p: its type, x: its xid).
OfError(v, msg) ==
  /\ metrics[v].of_errors < MaxErrors
  /\ Return(oferror(World, v, msg), Last("oferror", v, msg.type, clock, "", msg.xid))
  /\ UNCHANGED <<reloads, clock>>

\* The periodic advertise of v.
Advertise(v) ==
  /\ Return(advertise(World, v, clock), Last("advertise", v, 0, clock, "", 0))
  /\ UNCHANGED <<reloads, clock>>

\* The periodic fast_advertise of v.
FastAdvertise(v) ==
  /\ Return(fast_advertise(World, v, clock),
            Last("fast_advertise", v, 0, clock, "", 0))
  /\ UNCHANGED <<reloads, clock>>

\* Time passes, up to `max`, between two calls; nothing else changes.
Elapse(max) ==
  /\ clock < max
  /\ clock' = clock + 1
  /\ UNCHANGED <<valves, tfm, conf, dp, running, up_nos, coldstart, last_pipeline,
                 phys_up, lacp_up, last_lacp_pkt, lacp_updated, lacp_last_resp,
                 stack_state, probe, hosts, topo, metrics, last_advertise_sec,
                 last_fast_advertise_sec, last_packet_in_sec,
                 packet_in_count_sec, recent_ofmsgs, datapath, reloads, ret,
                 raised, notes, calls, last>>

\* ------------------------------------------------- the stack of s1 and s2
InitStack ==
  InitWith({"v1", "v2", "v3"}, ("v1" :> "s1" @@ "v2" :> "s2" @@ "v3" :> "s3"),
           [v \in {"v1", "v2", "v3"} |-> FALSE])

\* The datapaths of v1 and v2 connect, disconnect and exchange probes on
\* their stack ports; the datapath of the standalone v3 stays away.
StackValves == {"v1", "v2"}

NextStack ==
  \/ Tick
  \/ \E v \in StackValves : Connect(v, CPorts(dp[v]))
  \/ \E v \in StackValves : Disconnect(v)
  \/ \E v \in StackValves, rd \in {"s1", "s2"} : RcvLldp(v, 1, rd, 1)
  \/ \E v \in valves : FastStateExpire(v)

SpecStack == InitStack /\ [][NextStack]_vars

\* ------------------------------------------------- the DP with a LACP port
LacpPkts == [sys : {1, 2}, up : {0, 1}]

\* The PDUs received: any on the first LACP port, those of one peer on the
\* port it passes through, and one on the port without LACP.
LacpIns ==
  {i \in [p : PortNos, pkt : LacpPkts] :
     \/ i.p = 1 /\ i.pkt # [sys |-> 2, up |-> 0]
     \/ i.p = 2 /\ i.pkt = [sys |-> 1, up |-> 1]
     \/ i.p = 3 /\ i.pkt.sys = 1}

InitLacp == InitWith({"v1"}, ("v1" :> "l1"), [v \in {"v1"} |-> FALSE])

NextLacp ==
  \/ TickTo(MaxLacpNow)
  \/ \E up \in {{}, {1, 2, 3}} : Connect("v1", up)
  \/ Disconnect("v1")
  \/ \E i \in LacpIns : RcvLacp("v1", i.p, i.pkt)
  \/ StateExpire("v1")

SpecLacp == InitLacp /\ [][NextLacp]_vars

\* ------------------------------------------- the DP that is reconfigured
\* reload_config(now, new_dp) of v with the configuration c.
Reload(v, c) ==
  LET return(s) ==
        Commit(s, IF s.none THEN RetNone(s) ELSE RetList(s, v),
               Last("reload_config", v, 0, clock, c, 0))
  IN /\ reloads < MaxReloads
     /\ reloads' = reloads + 1
     /\ return(reload_config(World, v, clock, c))
     /\ UNCHANGED clock

\* The caller hands the list reload_config returned to send_flows.
SendFlows(v) ==
  /\ last.op = "reload_config"
  /\ last.v = v
  /\ Return(send_flows(World, v, ret.none, ret.by[v]),
            Last("send_flows", v, 0, clock, "", IF ret.none THEN 1 ELSE 0))
  /\ UNCHANGED <<reloads, clock>>

\* The caller hands what the last handler returned for v to send_flows, and
\* the datapath of v applies the messages in the order they are sent; a
\* None closes the session and leaves the flows alone.
Send(v) ==
  LET sent == valve_flowreorder(ret.by[v], USE_BARRIERS)
      applied ==
        IF ret.none THEN datapath
        ELSE [datapath EXCEPT ![v].flows = datapath_flow_mods(@, sent)]
  IN /\ last.op \notin {"init", "tick", "send_flows"}
     /\ last.v = v
     /\ CommitAll(send_flows(World, v, ret.none, ret.by[v]),
                  [none |-> FALSE, keys |-> {}, by |-> [w \in valves |-> <<>>]],
                  Last("send_flows", v, 0, clock, "", IF ret.none THEN 1 ELSE 0),
                  applied)
     /\ UNCHANGED <<reloads, clock>>

\* An observer records the flows the datapath of v holds and the
\* configuration of v.
Observe(v) ==
  /\ datapath[v].seen_dp = ""
  /\ datapath' = [datapath EXCEPT ![v].seen = datapath[v].flows,
                                  ![v].seen_dp = dp[v]]
  /\ UNCHANGED <<valves, tfm, conf, dp, running, up_nos, coldstart, last_pipeline,
                 phys_up, lacp_up, last_lacp_pkt, lacp_updated, lacp_last_resp,
                 stack_state, probe, hosts, topo, metrics, last_advertise_sec,
                 last_fast_advertise_sec, last_packet_in_sec,
                 packet_in_count_sec, recent_ofmsgs, reloads, clock, ret,
                 raised, notes, calls, last>>

\* The packet-in msg arrives from the datapath of v: it is dropped (x = 0)
\* when parse_pkt_meta returns None, else rcv_packet handles it.
RcvPacketIn(v, msg) ==
  LET handle(s, pkt_meta) ==
        Return(IF pkt_meta.none THEN s
               ELSE rcv_packet(s, v, clock, valves \ {v}, pkt_meta),
               Last("rcv_packet", v, msg.in_port, clock, msg.eth_src,
                    IF pkt_meta.none THEN 0 ELSE 1))
  IN /\ metrics[v].of_vlan_packet_ins + metrics[v].of_non_vlan_packet_ins
          < MaxPacketInCount
     /\ handle(World, parse_pkt_meta(World, v, msg))
     /\ UNCHANGED <<reloads, clock>>

\* A packet-in from port p with VLAN vid and source address mac.
RcvPacket(v, p, vid, mac) == RcvPacketIn(v, HostPacketIn(p, vid, mac))

\* The periodic resolve_gateways of v.
ResolveGateways(v) ==
  /\ Return(resolve_gateways(World, v, clock),
            Last("resolve_gateways", v, 0, clock, "", 0))
  /\ UNCHANGED <<reloads, clock>>

\* A valve that sends table features, constructed with configuration a.
InitReload == InitWith({"v1"}, ("v1" :> "a"), [v \in {"v1"} |-> TRUE])

\* The packet-ins of the model: from a port with one of its VLANs, or with
\* a VLAN the DP does not have.
PacketIns(c) ==
  {<<p, vid>> \in PortNos \X {100, 200, 300, 400} :
     vid = 400 \/ (p \in CPorts(c) /\ vid \in PortVids(CPort(c, p)))}

\* No list returned by reload_config waits to be sent.
Sent == last.op # "reload_config"

\* The caller of reload_config sends what it returned before anything else
\* is handled; the datapath connects with its ports 1 and 2 up.
NextReload ==
  \/ SendFlows("v1")
  \/ Sent /\ Tick
  \/ Sent /\ Connect("v1", {1, 2})
  \/ Sent /\ Disconnect("v1")
  \/ Sent /\ \E c \in ReloadConfigs : Reload("v1", c)
  \/ Sent /\ \E pv \in PacketIns(dp["v1"]) : RcvPacket("v1", pv[1], pv[2], "m1")
  \/ Sent /\ StateExpire("v1")
  \/ Sent /\ ResolveGateways("v1")

SpecReload == InitReload /\ [][NextReload]_vars

\* ----------------------------------- the DP whose ports come and go
InitPorts == InitWith({"v1"}, ("v1" :> "p1"), [v \in {"v1"} |-> FALSE])

\* The port status messages of the model: every decoded reason with either
\* state on the configured ports, an undecoded reason on port 1, and a port
\* that is not configured coming up.
PortEvents ==
  {e \in [p : PortNos \cup {4}, reason : PortStatusCodes \cup {"UNKNOWN"},
          port_status : BOOLEAN] :
     \/ e.p \in PortNos /\ e.reason \in PortStatusCodes
     \/ e.p = 1 /\ e.reason = "UNKNOWN"
     \/ e.p = 4 /\ e.reason = "MODIFY" /\ e.port_status}

NextPorts ==
  \/ Tick
  \/ \E up \in {{}, {1}, {1, 2}} : Connect("v1", up)
  \/ Disconnect("v1")
  \/ \E e \in PortEvents : PortStatus("v1", e.p, e.reason, e.port_status)

SpecPorts == InitPorts /\ [][NextPorts]_vars

\* ------------------------------------------------------ stack link claims
\* The valve the last handler ran on, and the valves _update_stack_link_state
\* reaches from it: itself and every valve whose DP has a stack root name.
StackFanout(v) == {v} \cup {w \in valves : Configs[dp[w]].stack_root_name # ""}

C1_States ==
  \A v \in valves : \A p \in StackPorts(dp[v]) :
    stack_state[v][p] \in {STACK_INIT, STACK_UP, STACK_DOWN}

C1_Step ==
  \A v \in valves : \A p \in StackPorts(dp[v]) :
    LET old == stack_state[v][p]
        new == stack_state'[v][p]
        info == probe'[v][p]
        seen == info.last_seen_lldp_time # None
        lost == (clock' - info.last_seen_lldp_time) >= MaxLldpLost * SendInterval
    IN old # new =>
         /\ last'.op \in {"lldp_handler", "fast_state_expire"}
         /\ new = STACK_INIT => old = STACK_DOWN /\ ~seen
         /\ new = STACK_DOWN => old # STACK_DOWN /\ seen /\ (~info.stack_correct \/ lost)
         /\ new = STACK_UP => old # STACK_UP /\ seen /\ info.stack_correct /\ ~lost
         /\ metrics'[v].port_stack_state[p] = new

\* C1: through LLDP probe receptions and fast_state_expire ticks every stack
\* port is in INIT, UP or DOWN, and every change of a stack port's state is a
\* transition of the table: to INIT only from DOWN with no probe ever seen,
\* to DOWN only from a non-DOWN state on incorrect cabling or a probe
\* timeout, to UP only from a non-UP state on a correct and recent probe.
C1_StackTransitions == []C1_States /\ [][C1_Step]_vars

\* A stack port that came up on a correct probe and was taken down by
\* fast_state_expire once the probe was too old.
C1_Witness ==
  /\ last.op = "fast_state_expire"
  /\ last.v = "v1"
  /\ stack_state["v1"][1] = STACK_DOWN
  /\ probe["v1"][1].stack_correct
  /\ probe["v1"][1].last_seen_lldp_time # None
  /\ metrics["v1"].port_stack_state[1] = STACK_DOWN
  /\ topo["v1"] = {}

\* Some stack port went from UP to DOWN or from DOWN to UP in this step.
StackFlip ==
  \E v \in valves : \E p \in StackPorts(dp[v]) :
    {stack_state[v][p], stack_state'[v][p]} = {STACK_UP, STACK_DOWN}

Called(cs, f, w) == \E i \in DOMAIN cs : cs[i].f = f /\ cs[i].v = w
HasMsg(q, k, port, vid) ==
  \E i \in DOMAIN q : q[i].k = k /\ q[i].port = port /\ q[i].vid = vid

\* The returned map r has for valve w its tunnel flowmods, the flood
\* programming of each of its VLANs and the host deletion of each of its
\* stack ports.
StackReceived(r, w) ==
  /\ w \in r.keys
  /\ has_acls(dp[w]) => HasMsg(r.by[w], "acl_tunnel", 0, 0)
  /\ \A vid \in CVlans(dp[w]) : HasMsg(r.by[w], "flood_add_vlan", 0, vid)
  /\ \A sp \in StackPorts(dp[w]) : HasMsg(r.by[w], "host_del_port", sp, 0)

\* The statement of the specification: every valve of the stack is updated
\* and receives its messages.
C2_AllReceive ==
  [][StackFlip =>
       \A w \in StackFanout(last'.v) :
         /\ Called(calls', "update_stack_topo", w)
         /\ Called(calls', "update_tunnel_flowrules", w)
         /\ StackReceived(ret', w)]_vars

\* C2: on every UP<->DOWN transition of a stack port, every valve of the
\* stack (the valve of the port and every other valve with a stack root
\* name) has its stack topology updated and recomputes its tunnel flows in
\* the same call, and no other valve does; each of them whose datapath is
\* running receives in the returned map its tunnel flowmods, the flood
\* programming of every one of its VLANs and the host deletion of each of its
\* stack ports; one whose datapath is not running receives nothing.
C2_RunningReceive ==
  [][StackFlip =>
       /\ \A w \in StackFanout(last'.v) :
            /\ Called(calls', "update_stack_topo", w)
            /\ Called(calls', "update_tunnel_flowrules", w)
            /\ running[w] => StackReceived(ret', w)
            /\ ~running[w] => w \notin ret'.keys
       /\ \A w \in valves \ StackFanout(last'.v) :
            /\ ~Called(calls', "update_stack_topo", w)
            /\ ~Called(calls', "update_tunnel_flowrules", w)
            /\ w \notin ret'.keys]_vars

\* A stack port of v1 timed out while both datapaths of the stack were
\* running, and both valves received their messages.
C2_Witness ==
  /\ last.op = "fast_state_expire"
  /\ stack_state[last.v][1] = STACK_DOWN
  /\ probe[last.v][1].last_seen_lldp_time # None
  /\ running["v1"] /\ running["v2"]
  /\ ret.keys = {"v1", "v2"}
  /\ StackReceived(ret, "v1") /\ StackReceived(ret, "v2")
  /\ Called(calls, "update_stack_topo", "v2")

\* -------------------------------------------------------------- LACP claims
LacpPorts(c) == {p \in CPorts(c) : CPort(c, p).lacp # 0}

\* C9: for every valid LACP PDU received on a LACP port, lacp_handler takes
\* the port's LACP state to UP iff the PDU's actor is up and the port is
\* DOWN, to DOWN iff the actor is not up and the port is UP, and leaves it
\* unchanged otherwise; port_lacp_status follows every such change, so that
\* DOWN -> UP -> DOWN reads 0, 1, 0.
C9_LacpHandler ==
  [][last'.op = "lacp_handler" =>
       LET v == last'.v
           p == last'.p
           actor_up == last'.x
           old == lacp_up[v][p]
           new == lacp_up'[v][p]
       IN /\ new = 1 /\ old # 1 <=> actor_up = 1 /\ old = 0
          /\ new = 0 /\ old # 0 <=> actor_up = 0 /\ old = 1
          /\ new \in {0, 1}
          /\ new # old => metrics'[v].port_lacp_status[p] = new
          /\ new = old => metrics'[v].port_lacp_status[p]
                            = metrics[v].port_lacp_status[p]
          /\ \A q \in PortNos \ {p} : lacp_up'[v][q] = lacp_up[v][q]]_vars

\* A PDU whose actor is not up took the port, which an earlier PDU had
\* brought up, down again: the handler returned lacp_down's flows.
C9_Witness ==
  /\ last.op = "lacp_handler"
  /\ last.x = 0
  /\ lacp_up[last.v][last.p] = 0
  /\ metrics[last.v].port_lacp_status[last.p] = 0
  /\ HasMsg(ret.by[last.v], "flowdrop", last.p, 0)

\* The statement of the specification: state_expire expires every stale LACP
\* port, whether or not the datapath is running.
C10_ExpireAlways ==
  [][last'.op = "state_expire" =>
       \A p \in LacpPorts(dp[last'.v]) :
         lacp_up[last'.v][p] = 1 =>
           IF clock - lacp_updated[last'.v][p] > LacpTimeout
           THEN /\ lacp_up'[last'.v][p] = 0
                /\ metrics'[last'.v].port_lacp_status[p] = 0
                /\ ret'.by[last'.v] # <<>>
           ELSE lacp_up'[last'.v][p] = 1]_vars

\* C10: on a running datapath state_expire(now) takes to DOWN every LACP port
\* that is UP and whose last LACP update is older than lacp_timeout (now -
\* last_lacp_updated > lacp_timeout), returns a non-empty message list for
\* it and sets port_lacp_status to 0, and it leaves UP every LACP port whose
\* last update is within lacp_timeout; on a datapath that is not running it
\* changes no LACP state and returns nothing.
C10_ExpireRunning ==
  [][last'.op = "state_expire" =>
       LET v == last'.v
       IN IF running[v]
          THEN \A p \in LacpPorts(dp[v]) :
                 lacp_up[v][p] = 1 =>
                   IF clock - lacp_updated[v][p] > LacpTimeout
                   THEN /\ lacp_up'[v][p] = 0
                        /\ metrics'[v].port_lacp_status[p] = 0
                        /\ v \in ret'.keys
                        /\ HasMsg(ret'.by[v], "flowdrop", p, 0)
                   ELSE lacp_up'[v][p] = 1
          ELSE /\ lacp_up' = lacp_up
               /\ metrics' = metrics
               /\ ret'.keys = {}]_vars

\* state_expire on the running datapath found the LACP port stale and took
\* it down.
C10_Witness ==
  /\ last.op = "state_expire"
  /\ running[last.v]
  /\ lacp_up[last.v][1] = 0
  /\ lacp_updated[last.v][1] = None
  /\ metrics[last.v].port_lacp_status[1] = 0
  /\ HasMsg(ret.by[last.v], "flowdrop", 1, 0)

\* ------------------------------------------------------------ reload claims
\* The restart_type of the CONFIG_CHANGE notification among ns ("" if none).
RestartType(ns) ==
  IF \E i \in DOMAIN ns : ns[i].k = "CONFIG_CHANGE"
  THEN ns[CHOOSE i \in DOMAIN ns : ns[i].k = "CONFIG_CHANGE"].a
  ELSE ""

\* C3, its first case: reload_config on a connected valve that sends table
\* features, with a new_dp whose table set differs from the one of self.dp,
\* is a cold restart (restart_type cold, faucet_config_reload_cold
\* incremented).
C3_PipelineChangeCold ==
  [][\A v \in valves :
       (/\ last'.op = "reload_config" /\ last'.v = v
        /\ tfm[v] /\ running[v]
        /\ Configs[dp[v]].pipeline # Configs[last'.c].pipeline)
       => /\ RestartType(notes') = "cold"
          /\ metrics'[v].faucet_config_reload_cold
               = metrics[v].faucet_config_reload_cold + 1]_vars

\* The steps of the warm path in their order.
StepRank(f) ==
  CASE f = "deleted_ports" -> 1
    [] f = "deleted_vids" -> 2
    [] f = "changed_ports_delete" -> 3
    [] f = "dp_init" -> 4
    [] f = "changed_vids" -> 5
    [] f = "changed_ports_add" -> 6
    [] f = "changed_acl_ports" -> 7
    [] OTHER -> 0

HasStep(cs, f) == \E i \in DOMAIN cs : cs[i].f = f

\* The messages of q built during step f of the steps cs.
StepMsgs(cs, q, f) ==
  IF HasStep(cs, f)
  THEN LET i == CHOOSE j \in DOMAIN cs : cs[j].f = f
       IN SubSeq(q, cs[i].p + 1, IF i < Len(cs) THEN cs[i + 1].p ELSE Len(q))
  ELSE <<>>

Kinds(q) == [i \in DOMAIN q |-> [k |-> q[i].k, vid |-> q[i].vid]]
DelThenAdd(vids) ==
  [i \in 1..Len(vids) |-> [k |-> "flowdel_vlan", vid |-> vids[i]]]
    \o [i \in 1..(2 * Len(vids)) |->
          [k |-> IF i % 2 = 1 THEN "add_vlan" ELSE "flood_add_vlan",
           vid |-> vids[(i + 1) \div 2]]]

\* C4: on the warm path of reload_config the steps run in the order: delete
\* removed ports, delete removed VLANs, delete changed ports, swap self.dp,
\* delete then add changed VLANs, add the changed ports that were up,
\* reinstall the ACLs of changed-ACL ports; each step runs iff its set is
\* non-empty; everything built before the swap is resolved against the old
\* DP and everything after it against the new DP.
C4_WarmOrder ==
  [][\A v \in valves :
       (last'.op = "reload_config" /\ last'.v = v /\ RestartType(notes') = "warm")
       => LET old == dp[v]
              new == last'.c
              ch == GetConfigChanges(old, new)
              cs == calls'
              q == ret'.by[v]
              before == SubSeq(q, 1, cs[CHOOSE j \in DOMAIN cs : cs[j].f = "dp_init"].p)
              after == SubSeq(q, Len(before) + 1, Len(q))
          IN /\ \A i, j \in DOMAIN cs : i < j => StepRank(cs[i].f) < StepRank(cs[j].f)
             /\ \A i \in DOMAIN cs : StepRank(cs[i].f) > 0
             /\ HasStep(cs, "dp_init") /\ dp'[v] = new
             /\ HasStep(cs, "deleted_ports") <=> ch.deleted_ports # {}
             /\ HasStep(cs, "deleted_vids") <=> ch.deleted_vids # {}
             /\ HasStep(cs, "changed_ports_delete") <=> ch.changed_ports # {}
             /\ HasStep(cs, "changed_vids") <=> ch.changed_vids # {}
             /\ HasStep(cs, "changed_ports_add") <=> ch.changed_ports # {}
             /\ HasStep(cs, "changed_acl_ports")
                  <=> has_acls(new) /\ ch.changed_acl_ports # {}
             /\ \A i \in DOMAIN before : before[i].dp = old
             /\ \A i \in DOMAIN after : after[i].dp = new
             /\ \A m \in Range(StepMsgs(cs, q, "deleted_ports")) :
                  m.port \in ch.deleted_ports \/ m.port = 0
             /\ \A pn \in ch.deleted_ports :
                  ~CPort(old, pn).output_only =>
                    \E m \in Range(StepMsgs(cs, q, "deleted_ports")) : m.port = pn
             /\ Kinds(StepMsgs(cs, q, "deleted_vids"))
                  = [i \in 1..Cardinality(ch.deleted_vids) |->
                       [k |-> "flowdel_vlan", vid |-> SortedSeq(ch.deleted_vids)[i]]]
             /\ \A m \in Range(StepMsgs(cs, q, "changed_ports_delete")) :
                  m.port \in ch.changed_ports \/ m.port = 0
             /\ Kinds(StepMsgs(cs, q, "changed_vids"))
                  = DelThenAdd(SortedSeq(ch.changed_vids))
             /\ \A m \in Range(StepMsgs(cs, q, "changed_ports_add")) :
                  m.port \in ch.changed_ports \cap up_nos[v] \/ m.port = 0
             /\ \A pn \in ch.changed_ports \cap up_nos[v] :
                  \E m \in Range(StepMsgs(cs, q, "changed_ports_add")) : m.port = pn
             /\ Kinds(StepMsgs(cs, q, "changed_acl_ports"))
                  = [i \in 1..Len(StepMsgs(cs, q, "changed_acl_ports")) |->
                       [k |-> "acl_cold_start_port", vid |-> 0]]
             /\ {m.port : m \in Range(StepMsgs(cs, q, "changed_acl_ports"))}
                  = IF has_acls(new) THEN ch.changed_acl_ports ELSE {}]_vars

\* A warm reload to the configuration without port 3: a removed port, a
\* changed VLAN and a changed port were reconciled around the swap.
C4_Witness ==
  /\ last.op = "reload_config"
  /\ RestartType(notes) = "warm"
  /\ dp[last.v] = "d"
  /\ HasStep(calls, "deleted_ports")
  /\ HasStep(calls, "changed_ports_delete")
  /\ HasStep(calls, "changed_vids")
  /\ HasStep(calls, "changed_ports_add")
  /\ HasMsg(ret.by[last.v], "flowdel_in_port", 3, 0)
  /\ HasMsg(ret.by[last.v], "add_vlan", 0, 200)

\* Whether call record r left every valve's learned and port state alone.
Untouched ==
  /\ hosts' = hosts /\ lacp_up' = lacp_up /\ up_nos' = up_nos
  /\ phys_up' = phys_up /\ dp' = dp

\* C5: a cold reload_config on a running datapath returns None; send_flows
\* handed None disconnects the datapath; until datapath_connect runs again
\* the valve is not running, drops every packet-in and returns nothing from
\* state_expire and resolve_gateways.
C5_ColdReloadDisconnects ==
  [][\A v \in valves :
       /\ (last'.op = "reload_config" /\ last'.v = v)
            => (ret'.none <=> (RestartType(notes') = "cold" /\ running[v]))
       /\ (last'.op = "send_flows" /\ last'.v = v /\ ret.none)
            => /\ ~running'[v]
               /\ metrics'[v].dp_status = 0
               /\ \E i \in DOMAIN notes' :
                    notes'[i] = [k |-> "DP_CHANGE", a |-> "disconnect"]
       /\ (~running[v] /\ running'[v])
            => (last'.op = "datapath_connect" /\ last'.v = v)
       /\ (~running[v] /\ last'.op = "rcv_packet" /\ last'.v = v)
            => (last'.x = 0 /\ ret'.keys = {} /\ Untouched)
       /\ (~running[v] /\ last'.op \in {"state_expire", "resolve_gateways"}
             /\ last'.v = v)
            => (ret'.keys = {} /\ Untouched)]_vars

\* A packet-in dropped by a valve that a cold reload has disconnected.
C5_Witness ==
  /\ last.op = "rcv_packet" /\ last.x = 0
  /\ ~running[last.v]
  /\ coldstart[last.v] # None
  /\ metrics[last.v].faucet_config_reload_cold >= 1
  /\ metrics[last.v].dp_status = 0
  /\ dp[last.v] = "e"

\* C6: every reload_config emits exactly one CONFIG_CHANGE notification
\* whose restart_type is cold, warm or null; it is warm iff the call was not
\* cold, the datapath is running and at least one message was produced; a null reload returns the empty
\* list and increments neither counter; a reload with the configuration the
\* valve already has is null.
C6_RestartType ==
  [][\A v \in valves :
       (last'.op = "reload_config" /\ last'.v = v)
       => LET rt == RestartType(notes')
              r == apply_config_changes(World, v,
                     [c |-> last'.c,
                      merged |-> GetConfigChanges(dp[v], last'.c).merged],
                     GetConfigChanges(dp[v], last'.c))
              cold == metrics'[v].faucet_config_reload_cold
                        - metrics[v].faucet_config_reload_cold
              warm == metrics'[v].faucet_config_reload_warm
                        - metrics[v].faucet_config_reload_warm
          IN /\ Cardinality({i \in DOMAIN notes' : notes'[i].k = "CONFIG_CHANGE"}) = 1
             /\ rt \in {"cold", "warm", "null"}
             /\ rt = "cold" <=> r.cold
             /\ rt = "warm" <=> (~r.cold /\ running[v] /\ r.w.acc # <<>>)
             /\ rt = "cold" => (cold = 1 /\ warm = 0)
             /\ rt = "warm" => (cold = 0 /\ warm = 1)
             /\ rt = "null" => (cold = 0 /\ warm = 0 /\ ~ret'.none
                                 /\ ret'.by[v] = <<>>)
             /\ last'.c = dp[v] => rt = "null"]_vars

\* C7: reload_config carries the dynamic state of the outgoing DP over to
\* the new DP: the running flag, the up-port set and the last cold-start
\* time are those of the old DP, and self.dp is the new DP.
C7_CloneDynState ==
  [][\A v \in valves :
       (last'.op = "reload_config" /\ last'.v = v)
       => /\ dp'[v] = last'.c
          /\ running'[v] = running[v]
          /\ up_nos'[v] = up_nos[v]
          /\ coldstart'[v] = coldstart[v]]_vars

\* A cold reload of a running valve that kept its running flag, its up
\* ports and its cold-start time.
C7_Witness ==
  /\ last.op = "reload_config"
  /\ dp[last.v] = "e"
  /\ RestartType(notes) = "cold"
  /\ running[last.v]
  /\ up_nos[last.v] = {1, 2}
  /\ coldstart[last.v] = 1 /\ last.now = 2

ReplyDue(v, p, pkt, now) ==
  \/ last_lacp_pkt[v][p] = NoPkt
  \/ pkt # last_lacp_pkt[v][p]
  \/ /\ lacp_last_resp[v][p] \notin {None, 0}
     /\ now - lacp_last_resp[v][p] > LacpRespInterval

\* The statement of the specification: lacp_handler answers a PDU received
\* on a LACP port whenever a reply is due, whatever the state of the port's
\* passthrough peers, and does not answer otherwise.
C11_ReplyWhenDue ==
  [][last'.op = "lacp_handler" /\ last'.p \in LacpPorts(dp[last'.v]) =>
       LET v == last'.v
           p == last'.p
           pkt == last_lacp_pkt'[v][p]
       IN HasMsg(ret'.by[v], "lacp_pdu", p, pkt.sys)
            <=> ReplyDue(v, p, pkt, last'.now)]_vars

\* C11: lacp_handler answers a PDU received on a LACP port exactly when a
\* reply is due (content differs from the stored PDU, none stored, or more
\* than lacp_resp_interval since the last reply) and no passthrough peer of
\* the port is DOWN; a due reply, sent or suppressed, sets the port's last
\* reply time to now, so an identical PDU repeated forever is dealt with
\* again each time more than lacp_resp_interval has passed; a PDU for which
\* no reply is due adds no PDU and leaves the last reply time alone unless
\* it takes the port DOWN.
C11_ReplyUnlessSuppressed ==
  [][last'.op = "lacp_handler" /\ last'.p \in LacpPorts(dp[last'.v]) =>
       LET v == last'.v
           p == last'.p
           now == last'.now
           pkt == last_lacp_pkt'[v][p]
           due == ReplyDue(v, p, pkt, now)
           suppressed == \E peer \in CPort(dp[v], p).lacp_passthrough :
                           lacp_up'[v][peer] = 0
       IN /\ HasMsg(ret'.by[v], "lacp_pdu", p, pkt.sys)
               <=> due /\ ~suppressed
          /\ \A q \in PortNos \ {p}, sys \in {1, 2} :
               ~HasMsg(ret'.by[v], "lacp_pdu", q, sys)
          /\ due => lacp_last_resp'[v][p] = now
          /\ ~due => lacp_last_resp'[v][p] =
                       IF lacp_up[v][p] = 1 /\ lacp_up'[v][p] = 0
                       THEN None ELSE lacp_last_resp[v][p]
          /\ lacp_updated'[v][p] = now]_vars

\* A PDU for which a reply was due arrived on the port whose passthrough
\* peer is DOWN: _lacp_actions ran, no PDU was returned, and the reply time
\* was taken nevertheless.
C11_Witness ==
  /\ last.op = "lacp_handler"
  /\ Called(calls, "lacp_actions", last.v)
  /\ \E peer \in CPort(dp[last.v], last.p).lacp_passthrough :
       lacp_up[last.v][peer] = 0
  /\ ~\E i \in DOMAIN ret.by[last.v] : ret.by[last.v][i].k = "lacp_pdu"
  /\ lacp_last_resp[last.v][last.p] = last.now
  /\ last.now > 0

\* ------------------------------------------------------ port status claims
\* The kinds of message ports_delete builds for a port without LACP, and the
\* kinds ports_add builds for it.
PortDeleteKinds == {"flowdel_in_port", "host_del_port", "flood_update_vlan"}
PortAddKinds ==
  {"acl_port", "flowcontroller_lldp", "port_vlan_tagged", "port_vlan_native",
   "flood_add_vlan"}

\* The list q is made of port-delete messages followed by port-add
\* messages, with at least one of each that names port p.
DeleteThenAdd(q, p) ==
  \E k \in 1..(Len(q) - 1) :
    /\ \A i \in 1..k : q[i].k \in PortDeleteKinds
    /\ \A i \in (k + 1)..Len(q) : q[i].k \in PortAddKinds
    /\ \E i \in 1..k : q[i].port = p
    /\ \E i \in (k + 1)..Len(q) : q[i].port = p

\* C12: port_status_handler with reason MODIFY and an up state, on a port
\* that is already physically up and whose status the datapath decides
\* (opstatus_reconf), treats the event as a flap: the list returned for self
\* has every port-delete message before every port-add message, and the port
\* ends physically up.  (An always-up port stays up and gets an empty map.)
C12_Flap ==
  [][/\ last'.op = "port_status_handler"
     /\ last'.c = "MODIFY" /\ last'.x = 1
     /\ port_no_valid(dp[last'.v], last'.p)
     /\ phys_up[last'.v][last'.p]
     =>
       LET v == last'.v
           p == last'.p
       IN /\ phys_up'[v][p]
          /\ IF CPort(dp[v], p).opstatus_reconf
             THEN /\ ret'.keys = {v}
                  /\ DeleteThenAdd(ret'.by[v], p)
             ELSE ret'.keys = {}]_vars

\* A flap was handled: port 2, which is up, was reported up again, and the
\* list returned deletes its flows and then adds its VLAN rules.
C12_Witness ==
  /\ last.op = "port_status_handler"
  /\ last.c = "MODIFY" /\ last.x = 1 /\ last.p = 2
  /\ phys_up[last.v][2]
  /\ ret.keys = {last.v}
  /\ HasMsg(ret.by[last.v], "flowdel_in_port", 2, 0)
  /\ HasMsg(ret.by[last.v], "port_vlan_tagged", 2, 200)
  /\ ret.by[last.v][1].k = "flowdel_in_port"

\* Port p has no port-add message in the list q.
NoPortAdd(q, p) ==
  \A i \in DOMAIN q : q[i].port = p => q[i].k \notin PortAddKinds

\* C13: after datapath_connect and any port status events, each configured
\* port that is neither reported up nor always-up has port_status 0, is not
\* in the up-port set and has no port-add flows in effect.  Step by step:
\* datapath_connect leaves every such port with port_status 0 and without
\* port-add messages, and a port status message that reports a decidable
\* port of the connected datapath down leaves it with port_status 0, out of the up-port set, not
\* physically up and without port-add messages, whatever its reason.
C13_DownPortsBare ==
  [][/\ last'.op = "datapath_connect" =>
          \A p \in CPorts(dp[last'.v]) :
            CPort(dp[last'.v], p).opstatus_reconf /\ p \notin up_nos'[last'.v]
              => /\ metrics'[last'.v].port_status[p] = 0
                 /\ NoPortAdd(ret'.by[last'.v], p)
     /\ (/\ last'.op = "port_status_handler"
         /\ running[last'.v]
         /\ last'.c \in PortStatusCodes /\ last'.x = 0
         /\ port_no_valid(dp[last'.v], last'.p)
         /\ CPort(dp[last'.v], last'.p).opstatus_reconf)
          => /\ metrics'[last'.v].port_status[last'.p] = 0
             /\ last'.p \notin up_nos'[last'.v]
             /\ ~phys_up'[last'.v][last'.p]
             /\ NoPortAdd(ret'.by[last'.v], last'.p)]_vars

\* ------------------------------------ the DP that connects and disconnects
\* Either DP, behind a valve that sends table features or one that does not.
InitConnect ==
  \E c \in {"p1", "p2"}, t \in BOOLEAN :
    InitWith({"v1"}, ("v1" :> c), [v \in {"v1"} |-> t])

\* The port status messages between connections: port 1 goes up or down,
\* and a port that is not configured comes up.
ConnectEvents ==
  {e \in PortEvents : e.reason = "MODIFY" /\ e.p \in {1, 4}}

NextConnect ==
  \/ Tick
  \/ \E up \in SUBSET {1, 2} : Connect("v1", up)
  \/ Disconnect("v1")
  \/ \E e \in ConnectEvents : PortStatus("v1", e.p, e.reason, e.port_status)

SpecConnect == InitConnect /\ [][NextConnect]_vars
\* ---------------------------------------------------- cold start claims
\* The positions of the messages of kind k in the list q.
Where(q, k) == {i \in DOMAIN q : q[i].k = k}

\* C14: the list datapath_connect(now, up_ports) returns starts with the
\* delete of all flows, preceded only by the table features on a TFM valve;
\* it holds the packet-in meter iff the DP limits packet-ins and an entry for
\* each meter of the DP, the default miss flows, port flows for exactly the
\* configured ports that are up or always up, the programming of every VLAN,
\* and it ends with the asynchronous configuration, which asks for
\* flow-removed messages iff the DP uses idle timeouts; afterwards the DP is
\* running, its last cold start time is now and dp_status is 1.
C14_ColdStart ==
  [][last'.op = "datapath_connect" =>
       LET v == last'.v
           c == dp[v]
           q == ret'.by[v]
           first == IF tfm[v] THEN 2 ELSE 1
       IN /\ ret'.keys = {v}
          /\ Where(q, "flowdel_all") = {first}
          /\ Where(q, "table_features") = (IF tfm[v] THEN {1} ELSE {})
          /\ (Where(q, "controller_pps_meteradd") # {})
               <=> (Configs[c].packetin_pps # 0)
          /\ \A m \in {1, 2} :
               HasMsg(q, "meter_entry", 0, m) <=> m \in Configs[c].meters
          /\ Where(q, "default_flows") # {}
          /\ \A p \in CPorts(c) :
               /\ (\E i \in DOMAIN q : q[i].port = p /\ q[i].k \in PortAddKinds)
                    <=> p \in up_nos'[v]
               /\ ~CPort(c, p).opstatus_reconf => p \in up_nos'[v]
          /\ \A i \in DOMAIN q : q[i].port = 0 \/ q[i].port \in CPorts(c)
          /\ \A vid \in CVlans(c) : HasMsg(q, "add_vlan", 0, vid)
          /\ Where(q, "faucet_async") = {Len(q)}
          /\ (q[Len(q)].prio = "flow_removed") <=> Configs[c].use_idle_timeout
          /\ running'[v]
          /\ coldstart'[v] = last'.now
          /\ metrics'[v].dp_status = 1]_vars

\* The TFM valve of the DP with meters and idle timeouts connected at a time
\* after 0 with port 1 up: table features, then the delete of all flows, the
\* flows of port 1 and of the always-up port 3, none of port 2, and the
\* asynchronous configuration with flow-removed at the end.
C14_Witness ==
  /\ last.op = "datapath_connect"
  /\ last.now > 0
  /\ tfm["v1"] /\ dp["v1"] = "p1"
  /\ ret.by["v1"][1].k = "table_features"
  /\ ret.by["v1"][2].k = "flowdel_all"
  /\ HasMsg(ret.by["v1"], "meter_entry", 0, 2)
  /\ HasMsg(ret.by["v1"], "port_vlan_native", 1, 100)
  /\ HasMsg(ret.by["v1"], "port_vlan_native", 3, 200)
  /\ ~HasMsg(ret.by["v1"], "port_vlan_tagged", 2, 200)
  /\ ret.by["v1"][Len(ret.by["v1"])].prio = "flow_removed"
  /\ running["v1"] /\ coldstart["v1"] = last.now

\* C15: datapath_disconnect marks the DP not running, sets dp_status to 0,
\* adds one to of_dp_disconnections and emits the DP_CHANGE notification
\* with reason disconnect; it returns no message and changes nothing else:
\* not the ports that are up, not any port's or VLAN's state, not any other
\* metric.
C15_DisconnectFrame ==
  [][last'.op = "datapath_disconnect" =>
       LET v == last'.v
       IN /\ ~running'[v]
          /\ metrics' = [metrics EXCEPT
                           ![v].dp_status = 0,
                           ![v].of_dp_disconnections = @ + 1]
          /\ notes' = <<[k |-> "DP_CHANGE", a |-> "disconnect"]>>
          /\ ret'.keys = {} /\ ret'.by[v] = <<>>
          /\ \A w \in valves \ {v} : running'[w] = running[w]
          /\ UNCHANGED <<valves, tfm, conf, dp, up_nos, coldstart,
                         last_pipeline, phys_up, lacp_up, last_lacp_pkt,
                         lacp_updated, lacp_last_resp, stack_state, probe,
                         hosts, topo, last_advertise_sec,
                         last_fast_advertise_sec, last_packet_in_sec,
                         packet_in_count_sec, recent_ofmsgs, reloads,
                         clock>>]_vars

\* A connected datapath with ports up disconnected: it is not running,
\* dp_status is 0, one disconnection is counted, and the ports that were up
\* are still recorded as up.
C15_Witness ==
  /\ last.op = "datapath_disconnect"
  /\ ~running["v1"]
  /\ coldstart["v1"] # None
  /\ metrics["v1"].dp_status = 0
  /\ metrics["v1"].of_dp_disconnections = 1
  /\ {1, 3} \subseteq up_nos["v1"]
  /\ phys_up["v1"][1]

\* ------------------------------------------------ two valves of one stack
\* Two stacked DPs, which either learn routes across the stack or do not.
InitPeers ==
  \E pr \in {<<"s1", "s2">>, <<"r1", "r2">>} :
    InitWith({"v1", "v2"}, ("v1" :> pr[1] @@ "v2" :> pr[2]),
             [v \in {"v1", "v2"} |-> FALSE])

\* Both datapaths connect; every other operation runs on v2: the probes on
\* its stack port come from the DP it is cabled to, the packet-ins from a
\* host on VLAN 100.
NextPeers ==
  \/ \E v \in valves : Connect(v, CPorts(dp[v]))
  \/ Disconnect("v2")
  \/ RcvLldp("v2", 1, CPort(dp["v2"], 1).stack_dp, 1)
  \/ FastStateExpire("v2")
  \/ \E up \in BOOLEAN : PortStatus("v2", 2, "MODIFY", up)
  \/ StateExpire("v2")
  \/ ResolveGateways("v2")
  \/ \E up \in {0, 1} : RcvLacp("v2", 3, [sys |-> 1, up |-> up])
  \/ \E p \in {1, 2} : RcvPacket("v2", p, 100, "m1")
  \/ Reload("v2", dp["v2"])
  \/ SendFlows("v2")

SpecPeers == InitPeers /\ [][NextPeers]_vars

\* ------------------------------------------------------ cross-valve claims
\* The step leaves everything valve w holds as it was.
PeerUnchanged(w) ==
  /\ dp'[w] = dp[w] /\ running'[w] = running[w] /\ up_nos'[w] = up_nos[w]
  /\ coldstart'[w] = coldstart[w] /\ last_pipeline'[w] = last_pipeline[w]
  /\ phys_up'[w] = phys_up[w] /\ lacp_up'[w] = lacp_up[w]
  /\ last_lacp_pkt'[w] = last_lacp_pkt[w]
  /\ lacp_updated'[w] = lacp_updated[w]
  /\ lacp_last_resp'[w] = lacp_last_resp[w]
  /\ stack_state'[w] = stack_state[w] /\ probe'[w] = probe[w]
  /\ hosts'[w] = hosts[w] /\ topo'[w] = topo[w] /\ metrics'[w] = metrics[w]
  /\ last_advertise_sec'[w] = last_advertise_sec[w]
  /\ last_fast_advertise_sec'[w] = last_fast_advertise_sec[w]
  /\ last_packet_in_sec'[w] = last_packet_in_sec[w]
  /\ packet_in_count_sec'[w] = packet_in_count_sec[w]
  /\ recent_ofmsgs'[w] = recent_ofmsgs[w]

\* The operations that may reach another valve: those that end in
\* _update_stack_link_state, and a packet-in on a DP that learns routes
\* across the stack.
CrossValve(op, v) ==
  \/ op \in {"lldp_handler", "fast_state_expire"}
  \/ op = "rcv_packet" /\ conf[dp[v]].stack_route_learning

InitTimers == InitWith({"v1"}, ("v1" :> "t1"), [v \in {"v1"} |-> FALSE])

\* The datapath connects, its LACP peer sends PDUs, the configuration is
\* loaded again, and the event loop runs the five periodic tasks at any time.
NextTimers ==
  \/ Elapse(MaxLacpNow)
  \/ Connect("v1", {1, 2})
  \/ \E up \in {0, 1} : RcvLacp("v1", 1, [sys |-> 1, up |-> up])
  \/ Reload("v1", "t1")
  \/ Advertise("v1")
  \/ FastAdvertise("v1")
  \/ FastStateExpire("v1")
  \/ StateExpire("v1")
  \/ ResolveGateways("v1")

SpecTimers == InitTimers /\ [][NextTimers]_vars

\* -------------------------------------------------- periodic task claims
\* What the Valves hold: everything but the clock and the record of the call.
ValveState ==
  <<dp, running, up_nos, coldstart, last_pipeline, phys_up, lacp_up,
    last_lacp_pkt, lacp_updated, lacp_last_resp, stack_state, probe, hosts,
    topo, metrics, last_advertise_sec, last_fast_advertise_sec,
    last_packet_in_sec, packet_in_count_sec, recent_ofmsgs>>

\* The step is a call of the periodic task op.
Runs(op) == last'.op = op /\ clock' = clock

\* The call returned no message for any valve.
NoOfmsgs == \A w \in valves : ret'.by[w] = <<>>

\* advertise and fast_advertise against their own interval and timestamp: a
\* call without an interval, or less than the interval after the timestamp,
\* returns {} and changes nothing; any other call sets the task's own
\* timestamp to now and leaves the other task's timestamp alone.
AdvertiseGated ==
  Runs("advertise") =>
    LET v == last'.v
        interval == conf[dp[v]].advertise_interval
    IN IF interval = 0 \/ clock - last_advertise_sec[v] < interval
       THEN ret'.keys = {} /\ UNCHANGED ValveState
       ELSE /\ last_advertise_sec' = [last_advertise_sec EXCEPT ![v] = clock]
            /\ UNCHANGED last_fast_advertise_sec

FastAdvertiseGated ==
  Runs("fast_advertise") =>
    LET v == last'.v
        interval == conf[dp[v]].fast_advertise_interval
    IN IF interval = 0 \/ clock - last_fast_advertise_sec[v] < interval
       THEN ret'.keys = {} /\ UNCHANGED ValveState
       ELSE /\ last_fast_advertise_sec' =
                 [last_fast_advertise_sec EXCEPT ![v] = clock]
            /\ UNCHANGED last_advertise_sec

\* The call repeats the task of the previous call on the same valve, at the
\* same time or one time unit later: less than any interval of more than one
\* time unit after the task's last run.
RunsAgain(op) ==
  Runs(op) /\ last.op = op /\ last.v = last'.v /\ last'.now <= last.now + 1

\* C17 (as stated): each of the five periodic tasks is gated by its own
\* interval against its own last-run timestamp: a call less than the
\* interval after the task's last run returns no message and changes no
\* state, and no task updates the timestamp of another.
C17_EveryTaskGated ==
  [][/\ AdvertiseGated
     /\ FastAdvertiseGated
     /\ \A op \in {"fast_state_expire", "state_expire", "resolve_gateways"} :
          RunsAgain(op) => NoOfmsgs /\ UNCHANGED ValveState]_vars

\* C17 (amended): advertise and fast_advertise are gated, each by its own
\* interval of the DP against its own timestamp, and neither updates the
\* timestamp of the other; fast_state_expire, state_expire and
\* resolve_gateways have no interval and no timestamp: they touch neither of
\* the two timestamps and act on every call.
C17_AdvertiseTasksGated ==
  [][/\ AdvertiseGated
     /\ FastAdvertiseGated
     /\ \A op \in {"fast_state_expire", "state_expire", "resolve_gateways"} :
          Runs(op) => UNCHANGED <<last_advertise_sec, last_fast_advertise_sec>>]_vars

\* advertise was called one time unit after it ran and did nothing, while
\* fast_advertise ran at that very time.
C17_Witness ==
  /\ last.op = "advertise" /\ ret.keys = {}
  /\ last_advertise_sec["v1"] > 0
  /\ clock = last_advertise_sec["v1"] + 1
  /\ last_fast_advertise_sec["v1"] = clock

\* --------------------------------------------- the DP that drops packet-ins
\* A DP that ignores every second packet-in (t1), or none (l1).
InitRate ==
  \E c \in {"t1", "l1"} : InitWith({"v1"}, ("v1" :> c), [v \in {"v1"} |-> FALSE])

\* Packet-ins arrive, time passes, and the configuration is loaded again.
NextRate ==
  \/ Elapse(MaxNow)
  \/ RateLimitPacketIns("v1")
  \/ Reload("v1", dp["v1"])

SpecRate == InitRate /\ [][NextRate]_vars

\* C18: rate_limit_packet_ins(now) restarts its counter from zero whenever
\* now differs from the now of the previous call, then adds one; with
\* ignore_learn_ins = N > 0 it returns true exactly when the counter after
\* the increment is a multiple of N, and then adds one to
\* of_ignored_packet_ins; with ignore_learn_ins = 0 it never returns true.
C18_RateLimit ==
  [][Runs("rate_limit_packet_ins") =>
       LET v == last'.v
           n == conf[dp[v]].ignore_learn_ins
           ignored == IF last'.x = 1 THEN 1 ELSE 0
       IN /\ (last.op = "rate_limit_packet_ins" /\ last.v = v /\ last.now # clock)
               => packet_in_count_sec'[v] = 1
          /\ packet_in_count_sec'[v] \in {1, packet_in_count_sec[v] + 1}
          /\ last'.x = 1 <=> (n > 0 /\ packet_in_count_sec'[v] % n = 0)
          /\ metrics'[v].of_ignored_packet_ins =
               metrics[v].of_ignored_packet_ins + ignored
          /\ dp' = dp /\ ret'.keys = {}]_vars

\* In a later second than the one of the first ignored packet-ins, the
\* counter has restarted and the second packet-in of the second is ignored.
C18_Witness ==
  /\ last.op = "rate_limit_packet_ins" /\ last.x = 1
  /\ clock > 0 /\ last_packet_in_sec["v1"] = clock
  /\ packet_in_count_sec["v1"] = 2
  /\ metrics["v1"].of_ignored_packet_ins = 3

\* ------------------------------------------- the DP whose messages are sent
InitRing == InitWith({"v1"}, ("v1" :> "s3"), [v \in {"v1"} |-> FALSE])

\* A list of n flow messages, every fourth of which deletes a flow.
Batch(n) ==
  [i \in 1..n |->
     Msg(IF i % 4 = 0 THEN "flowdel_strict" ELSE "flowdrop", "s3", 1, i, "")]
BatchSizes == {12, 24}

\* The errors reported: of a type and code that decode or not, with the xid
\* of a message that was prepared only (None), sent, or neither.
OfErrors == [type : {5, 666}, code : {0, 666}, xid : {None, 1, 30}]

NextRing ==
  \/ \E n \in BatchSizes : PrepareSendFlows("v1", Batch(n))
  \/ \E n \in BatchSizes : SendFlowMsgs("v1", Batch(n))
  \/ \E e \in OfErrors : OfError("v1", e)

SpecRing == InitRing /\ [][NextRing]_vars

\* The ring new is the ring old after n entries were appended to it: it is
\* full at most, its last entries are the appended ones, and before them
\* come the newest entries of old, in their order.
Appended(old, new, n) ==
  LET m == IF n < RingSize THEN n ELSE RingSize
      kept == Len(new) - m
  IN /\ Len(new) = (IF Len(old) + n < RingSize THEN Len(old) + n ELSE RingSize)
     /\ kept >= 0
     /\ SubSeq(new, 1, kept) = SubSeq(old, Len(old) - kept + 1, Len(old))

\* The messages of the last m entries of the ring.
Newest(ring, m) == [j \in 1..m |-> ring[Len(ring) - m + j].msg]

\* C19: the ring of recent messages never holds more than 32 entries; it
\* holds the messages prepared last, in the order they are sent, the oldest
\* falling out first; oferror names the first entry of the ring with the xid
\* of the error, and for every type and code, known or not, it returns
\* nothing and changes nothing of the Valve but of_errors, which it
\* increments.
C19_Ring ==
  [][LET v == last'.v
         n == metrics'[v].of_flowmsgs_sent - metrics[v].of_flowmsgs_sent
         m == IF n < RingSize THEN n ELSE RingSize
         same_xid(e) == e.xid = last'.x
         first(orig_msgs) == IF orig_msgs # <<>> THEN <<orig_msgs[1]>> ELSE <<>>
     IN /\ \A w \in valves : Len(recent_ofmsgs'[w]) <= RingSize
        /\ last'.op = "prepare_send_flows" =>
             /\ n = Len(ret'.by[v])
             /\ Appended(recent_ofmsgs[v], recent_ofmsgs'[v], n)
             /\ Newest(recent_ofmsgs'[v], m)
                  = SubSeq(ret'.by[v], n - m + 1, n)
        /\ (last'.op = "send_flows" /\ ~ret.none /\ last.op # "reload_config") =>
             /\ n = last'.x + 1
             /\ Appended(recent_ofmsgs[v], recent_ofmsgs'[v], n)
             /\ Newest(recent_ofmsgs'[v], m)
                  = SubSeq(valve_flowreorder(Batch(last'.x), USE_BARRIERS),
                           n - m + 1, n)
        /\ last'.op = "oferror" =>
             /\ calls'[1].caused_by
                  = first(SelectSeq(recent_ofmsgs[v], same_xid))
             /\ metrics' = [metrics EXCEPT ![v].of_errors = @ + 1]
             /\ ret'.keys = {} /\ ret'.by[v] = <<>> /\ raised' = ""
             /\ UNCHANGED <<dp, running, up_nos, coldstart, last_pipeline,
                            phys_up, lacp_up, last_lacp_pkt, lacp_updated,
                            lacp_last_resp, stack_state, probe, hosts, topo,
                            last_advertise_sec, last_fast_advertise_sec,
                            last_packet_in_sec, packet_in_count_sec,
                            recent_ofmsgs>>]_vars

\* An error of an unknown type was handled while the ring is full and has
\* lost its oldest messages; the error carries the xid of a message that is
\* in the ring still, behind messages that were prepared but never sent.
C19_Witness ==
  /\ last.op = "oferror" /\ last.p = 666 /\ last.x = 30
  /\ Len(recent_ofmsgs["v1"]) = RingSize
  /\ metrics["v1"].of_flowmsgs_sent > RingSize
  /\ recent_ofmsgs["v1"][1].xid = None
  /\ calls[1].caused_by # <<>>
  /\ calls[1].caused_by[1].xid = 30
  /\ metrics["v1"].of_errors = 1

\* ------------------------- the DP with a passthrough peer it does not have
InitRaise == InitWith({"v1"}, ("v1" :> "x1"), [v \in {"v1"} |-> FALSE])

\* The datapath connects and reports port changes, PDUs and packets arrive,
\* the periodic tasks run and the configuration is loaded again.
NextRaise ==
  \/ Elapse(MaxNow)
  \/ Connect("v1", {1, 2})
  \/ \E up \in BOOLEAN : PortStatus("v1", 2, "MODIFY", up)
  \/ \E up \in {0, 1} : RcvLacp("v1", 1, [sys |-> 1, up |-> up])
  \/ RcvPacket("v1", 2, 100, "m1")
  \/ FastAdvertise("v1")
  \/ FastStateExpire("v1")
  \/ StateExpire("v1")
  \/ ResolveGateways("v1")
  \/ Reload("v1", "x1")

SpecRaise == InitRaise /\ [][NextRaise]_vars

\* C20: no event handler raises: port_status_handler, the LACP, LLDP and
\* VLAN paths of rcv_packet, fast_advertise, fast_state_expire, state_expire,
\* resolve_gateways and reload_config return, also when a LACP passthrough
\* peer is not a port of the DP and when state_expire runs over LACP ports
\* that are up.
C20_NoHandlerRaises == raised = ""

\* ------------------------------------------------- rejected packet-ins
\* One valve with a stacked, a standalone, or a standalone configuration
\* that accepts any cookie.
InitPktIn ==
  \E c \in {"s2", "p2", "k1"} : InitWith({"v1"}, ("v1" :> c), [v \in {"v1"} |-> FALSE])

\* The packet-ins fed to the valve: Ethernet frames from any port number
\* (0: none, 4: not a port of the DP) with any VID (999: no VLAN of the DP)
\* from a unicast, the broadcast or the all-zero address, to the broadcast
\* address or to the address that spells VLAN 100; and packet-ins with
\* another cookie, another reason, no match, no data or data that is no
\* Ethernet frame.
FuzzFrames ==
  {[HostPacketIn(a[1], a[2], a[3]) EXCEPT !.eth_dst = a[4]] :
     a \in {0, 1, 2, 4} \X {None, 0, 100, 200, 999}
            \X {"m1", "ff:ff:ff:ff:ff:ff", "00:00:00:00:00:00"}
            \X {"ff:ff:ff:ff:ff:ff", "00:00:00:00:00:64"}}
FuzzPacketIns ==
  LET good == {HostPacketIn(a[1], a[2], "m1") : a \in {1, 2} \X {None, 100}}
  IN FuzzFrames
     \cup {[msg EXCEPT !.cookie = 7] : msg \in good}
     \cup {[msg EXCEPT !.reason = "OFPR_NO_MATCH"] : msg \in good}
     \cup {[msg EXCEPT !.match = FALSE] : msg \in good}
     \cup {[msg EXCEPT !.data = ""] : msg \in good}
     \cup {[msg EXCEPT !.data = "junk"] : msg \in good}

NextPktIn ==
  \/ Tick
  \/ Connect("v1", {1, 2, 3})
  \/ Disconnect("v1")
  \/ \E msg \in FuzzPacketIns : RcvPacketIn("v1", msg)

SpecPktIn == InitPktIn /\ [][NextPktIn]_vars

\* What the DP of v rejects: an unknown cookie under strict cookie checking,
\* a reason other than ACTION, no match, a missing or unconfigured in-port,
\* empty or unparseable data, a VLAN that is neither configured nor the
\* global VLAN, a source address that is not unicast or all zeros and, on a
\* stacked DP, a non-stack port that is no member of the packet's VLAN.
Unacceptable(v, msg) ==
  LET c == dp[v]
      vlan_vid == parse_rcv_packet(World, v, msg).vid
  IN \/ conf[c].strict_packet_in_cookie /\ msg.cookie # conf[c].cookie
     \/ msg.reason # "OFPR_ACTION"
     \/ ~msg.match
     \/ msg.in_port = 0
     \/ msg.in_port \notin CPorts(c)
     \/ msg.data \in {"", "junk"}
     \/ msg.vid \notin {None, conf[c].global_vlan} \cup CVlans(c)
     \/ msg.eth_src \in MulticastMacs
     \/ msg.eth_src = "00:00:00:00:00:00"
     \/ /\ IsStacked(c)
        /\ CPort(c, msg.in_port).stack_dp = ""
        /\ vlan_vid # None
        /\ vlan_vid \notin PortVids(CPort(c, msg.in_port))

\* C21: parse_pkt_meta returns no packet metadata for every packet-in with
\* an unknown cookie under strict cookie checking, a non-ACTION reason, no
\* match, a missing or unconfigured in-port, empty or unparseable data, a
\* VLAN that is neither configured nor the global VLAN, a non-unicast or
\* all-zero source address or, on a stacked DP, a non-stack port that is no
\* member of the packet's VLAN; a packet-in without metadata changes nothing
\* and returns nothing, one from a port number the DP does not have is such
\* a packet-in, and no packet-in raises.
C21_Rejected ==
  /\ [](\A v \in valves : \A msg \in FuzzPacketIns :
          Unacceptable(v, msg) => parse_pkt_meta(World, v, msg).none)
  /\ [][\A v \in valves :
          Runs("rcv_packet") /\ last'.v = v =>
            /\ raised' = ""
            /\ last'.p \notin CPorts(dp[v]) => last'.x = 0
            /\ last'.x = 0 =>
                 /\ NoOfmsgs
                 /\ notes' = <<>>
                 /\ ValveState' = ValveState]_vars

\* A running DP that has learned a host has dropped a packet-in from a
\* port number it does not have.
C21_Witness ==
  /\ last.op = "rcv_packet"
  /\ last.x = 0
  /\ last.p = 4
  /\ running["v1"]
  /\ hosts["v1"] # {}

\* ------------------------------------------------------ ports added twice
\* One valve with two LACP ports, the first active and passing the state of
\* the second through.
InitAdd == InitWith({"v1"}, ("v1" :> "q1"), [v \in {"v1"} |-> FALSE])

NextAdd ==
  \/ TickTo(1)
  \/ Connect("v1", {1, 2, 3})
  \/ \E p \in {1, 3} : \E up \in {0, 1} : RcvLacp("v1", p, [sys |-> 1, up |-> up])
  \/ RcvPacket("v1", 1, 100, "m1")
  \/ \E ps \in {{1}, {3}, {1, 3}, {1, 2, 3}, {2, 4}} : \E cold_start \in BOOLEAN :
       PortsAdd("v1", ps, cold_start)

SpecAdd == InitAdd /\ [][NextAdd]_vars

\* C22: ports_add is idempotent: a call of ports_add(P) right after a call
\* of ports_add(P), nothing having happened in between, returns the messages
\* the first call returned and leaves the port state the first call left:
\* the ports of P physically up, its LACP ports LACP DOWN.
C22_PortsAddIdempotent ==
  [][\A v \in valves :
       /\ Runs("ports_add")
       /\ last.op = "ports_add"
       /\ last'.v = v /\ last.v = v
       /\ last'.x = last.x /\ last'.c = last.c
       => /\ ret'.by[v] = ret.by[v]
          /\ phys_up' = phys_up
          /\ lacp_up' = lacp_up]_vars

\* The flow messages of a list: all but the packet-outs.
FlowMsgs(msgs) == SelectSeq(msgs, LAMBDA m : m.k # "lacp_pdu")

\* The step is a call of ports_add on v right after the same call.
PortsAddAgain(v) ==
  /\ Runs("ports_add")
  /\ last.op = "ports_add"
  /\ last'.v = v /\ last.v = v
  /\ last'.x = last.x /\ last'.c = last.c

\* C22 (amended): a call of ports_add(P) right after a call of ports_add(P)
\* returns the flow messages the first call returned and changes no state:
\* the ports of P stay physically up and its LACP ports LACP DOWN; only the
\* LACP packet-outs of the two calls may differ.
C22_FlowsIdempotent ==
  [][\A v \in valves :
       PortsAddAgain(v)
       => /\ FlowMsgs(ret'.by[v]) = FlowMsgs(ret.by[v])
          /\ ValveState' = ValveState
          /\ \A p \in CPorts(dp[v]) :
               (last.x \div 2 ^ (p - 1)) % 2 = 1 =>
                 /\ phys_up'[v][p]
                 /\ CPort(dp[v], p).lacp # 0 => lacp_up'[v][p] = 0]_vars

\* ports_add of the ports 1 and 3 of a running DP returned flows, and no
\* LACP packet-out for the active LACP port 1.
C22_Witness ==
  /\ last.op = "ports_add"
  /\ last.x = 5
  /\ running["v1"]
  /\ FlowMsgs(ret.by["v1"]) # <<>>
  /\ FlowMsgs(ret.by["v1"]) = ret.by["v1"]

\* ------------------------------------------------- reload and reload back
\* A valve that sends table features, constructed with configuration a.
InitRound == InitWith({"v1"}, ("v1" :> "a"), [v \in {"v1"} |-> TRUE])

\* Every handler's messages have reached the datapath.
AllSent == last.op \in {"init", "tick", "send_flows"}
Observed == datapath["v1"].seen_dp # ""

\* What a handler returns is sent before anything else happens.  The
\* datapath connects with its three ports up, a host sends from port 3, the
\* LACP partner of port 2 comes up; once the flows of the running datapath
\* are recorded, the configuration is reloaded, and reloaded again.
NextRound ==
  \/ Send("v1")
  \/ AllSent /\ ~Observed /\ Connect("v1", {1, 2, 3})
  \/ AllSent /\ ~Observed /\ RcvPacket("v1", 3, 200, "m1")
  \/ AllSent /\ ~Observed /\ RcvLacp("v1", 2, [sys |-> 1, up |-> 1])
  \/ AllSent /\ running["v1"] /\ Observe("v1")
  \/ AllSent /\ Observed /\ \E c \in ReloadConfigs : Reload("v1", c)

SpecRound == InitRound /\ [][NextRound]_vars

\* The configuration recorded was reloaded to another and back, the
\* datapath still runs and holds all that was sent.
RoundTrip(v) ==
  /\ datapath[v].seen_dp # ""
  /\ reloads = 2
  /\ dp[v] = datapath[v].seen_dp
  /\ running[v]
  /\ AllSent

\* C23: reload round-trip: on a running datapath, reload_config(dp') and
\* then reload_config(dp), dp being the configuration in force before the
\* first reload, leave the set of flows installed on the datapath equal to
\* the set installed before the first reload.
C23_RoundTrip ==
  \A v \in valves : RoundTrip(v) => datapath[v].flows = datapath[v].seen

\* ------------------------------------------------------- stack cabling
\* The stacked DPs s1 and s2, whose valves send no table features.
InitCabling ==
  InitWith({"v1", "v2"}, ("v1" :> "s1" @@ "v2" :> "s2"),
           [v \in {"v1", "v2"} |-> FALSE])

\* What an LLDP beacon names as its sender: the DP id, the DP name and the
\* port of s1 or s2, in any combination.
LldpIns == [id : {1, 2}, name : {"s1", "s2"}, port : {1, 2}]

\* The datapaths connect; v1 receives beacons on its stack port 1 and on
\* port 2, and runs its periodic check.
NextCabling ==
  \/ Tick
  \/ \E v \in {"v1", "v2"} : Connect(v, CPorts(dp[v]))
  \/ \E b \in LldpIns, p \in {1, 2} :
       RcvLldpFrom("v1", p, b.id, b.name, b.port)
  \/ FastStateExpire("v1")

SpecCabling == InitCabling /\ [][NextCabling]_vars

\* The beacon b does not come from the peer configured on stack port p of v.
Miscabled(v, p, b) ==
  \/ b.id # conf[CPort(dp[v], p).stack_dp].dp_id
  \/ b.name # CPort(dp[v], p).stack_dp
  \/ b.port # CPort(dp[v], p).stack_port

\* The state lldp_handler leaves when the beacon b arrives on port p of v.
AfterProbe(v, p, b) ==
  lldp_handler(World, v, p, clock, valves \ {v}, b.id, b.name, b.port)

\* A miscabled probe counts one cabling error, is recorded as incorrect and
\* leaves the port DOWN; a probe of the configured peer counts none.
ProbeCounted(v, p, b) ==
  /\ AfterProbe(v, p, b).metrics[v].stack_probes_received
       = metrics[v].stack_probes_received + 1
  /\ AfterProbe(v, p, b).probe[v][p].last_seen_lldp_time = clock
  /\ AfterProbe(v, p, b).probe[v][p].stack_correct = ~Miscabled(v, p, b)
  /\ AfterProbe(v, p, b).metrics[v].stack_cabling_errors
       = metrics[v].stack_cabling_errors
         + (IF Miscabled(v, p, b) THEN 1 ELSE 0)
  /\ Miscabled(v, p, b) => AfterProbe(v, p, b).stack_state[v][p] = STACK_DOWN

\* An evaluation of the stack ports of v: a probe received or the periodic
\* check.
Evaluates(v) ==
  /\ last'.op \in {"lldp_handler", "fast_state_expire"}
  /\ last'.v = v
  /\ clock' = clock

\* C24: an LLDP probe on a stack port that names a DP id, a DP name or a
\* port other than those of the configured peer increments
\* stack_cabling_errors by exactly one, is recorded with stack_correct
\* false, and leaves the port DOWN; while the last recorded probe is
\* incorrect, no evaluation moves the port to UP.
C24_CablingErrors ==
  /\ [](\A v \in valves : \A p \in StackPorts(dp[v]) : \A b \in LldpIns :
          ProbeCounted(v, p, b))
  /\ [][\A v \in valves : \A p \in StackPorts(dp[v]) :
          /\ Evaluates(v) /\ last'.op = "lldp_handler" /\ last'.p = p
               => /\ probe'[v][p].last_seen_lldp_time = clock
                  /\ metrics'[v].stack_cabling_errors
                       = metrics[v].stack_cabling_errors
                         + (IF probe'[v][p].stack_correct THEN 0 ELSE 1)
                  /\ ~probe'[v][p].stack_correct
                       => stack_state'[v][p] = STACK_DOWN
          /\ (/\ Evaluates(v)
              /\ probe'[v][p].last_seen_lldp_time # None
              /\ ~probe'[v][p].stack_correct)
               => stack_state'[v][p] = STACK_DOWN]_vars

\* The stack port of v1, brought UP by a first probe, went DOWN on a second
\* probe that named another sender: one cabling error in two probes.
C24_Witness ==
  /\ last.op = "lldp_handler"
  /\ last.v = "v1"
  /\ last.p = 1
  /\ metrics["v1"].stack_probes_received = 2
  /\ metrics["v1"].stack_cabling_errors = 1
  /\ ~probe["v1"][1].stack_correct
  /\ stack_state["v1"][1] = STACK_DOWN

\* ---------------------------------------------------- stack link expiry
\* The datapath of v1 connects; its stack port receives the beacons of its
\* peer s2 and beacons that name s1; the periodic check runs as long as it
\* has something to do, and time passes up to MaxExpiryNow.
NextExpiry ==
  \/ TickTo(MaxExpiryNow)
  \/ Connect("v1", CPorts(dp["v1"]))
  \/ \E rd \in {"s1", "s2"} : RcvLldp("v1", 1, rd, 1)
  \/ FastStateExpire("v1")

\* The periodic check is due when it was not the last thing that happened.
ExpireDue == last.op # "fast_state_expire"

\* Time passes, and the main loop calls fast_state_expire periodically:
\* the check is weakly fair, its enabling condition being that it is due.
SpecExpiry ==
  /\ InitCabling
  /\ [][NextExpiry]_vars
  /\ WF_vars(TickTo(MaxExpiryNow))
  /\ ([]<>~ExpireDue \/ []<><<FastStateExpire("v1")>>_vars)

\* The step is an evaluation of stack port p of v: the periodic check of
\* v, or a probe received on p.
Evaluated(v, p) ==
  /\ Evaluates(v)
  /\ last'.op = "fast_state_expire" \/ last'.p = p

\* At the evaluation the last probe of port p of v is too old:
\* (now - last_seen_lldp_time) / send_interval >= max_lldp_lost.
TimedOut(v, p) ==
  clock - probe'[v][p].last_seen_lldp_time >= MaxLldpLost * SendInterval

\* C25: a stack port that has seen a probe and is not DOWN is moved to DOWN
\* by the first evaluation (fast_state_expire or a probe received) at which
\* (now - last_seen_lldp_time) / send_interval >= max_lldp_lost; and when
\* no further probe arrives while the evaluations go on and time passes,
\* the port is eventually DOWN.
C25_TimeoutDown ==
  /\ [][\A v \in valves : \A p \in StackPorts(dp[v]) :
          (/\ Evaluated(v, p)
           /\ probe'[v][p].last_seen_lldp_time # None
           /\ stack_state[v][p] # STACK_DOWN
           /\ TimedOut(v, p))
            => stack_state'[v][p] = STACK_DOWN]_vars
  /\ \A t \in 0 .. (MaxExpiryNow - MaxLldpLost * SendInterval) :
       (probe["v1"][1].last_seen_lldp_time = t)
         ~> (\/ stack_state["v1"][1] = STACK_DOWN
             \/ probe["v1"][1].last_seen_lldp_time # t)

\* The periodic check found the last probe of the stack port of v1, a
\* correct one, too old and took the port DOWN.
C25_Witness ==
  /\ last.op = "fast_state_expire"
  /\ last.v = "v1"
  /\ probe["v1"][1].stack_correct
  /\ probe["v1"][1].last_seen_lldp_time # None
  /\ clock - probe["v1"][1].last_seen_lldp_time >= MaxLldpLost * SendInterval
  /\ stack_state["v1"][1] = STACK_DOWN
  /\ metrics["v1"].port_stack_state[1] = STACK_DOWN

\* At the evaluation the last probe of port p of v is correct and recent.
ProbeGood(v, p) ==
  /\ probe'[v][p].last_seen_lldp_time # None
  /\ probe'[v][p].stack_correct
  /\ ~TimedOut(v, p)

\* C26: a stack port that is not admin-down, whose last recorded probe is
\* correct and recent and that is not UP, is moved to UP by the next
\* evaluation, from INIT and from DOWN alike; and right after every
\* evaluation a port that is UP has a last probe that is correct and not
\* timed out.
C26_ProbeUp ==
  [][\A v \in valves : \A p \in StackPorts(dp[v]) :
       Evaluated(v, p)
         => /\ (stack_state[v][p] # STACK_ADMIN_DOWN /\ ProbeGood(v, p))
               => stack_state'[v][p] = STACK_UP
            /\ stack_state'[v][p] = STACK_UP => ProbeGood(v, p)]_vars

\* A probe of the configured peer brought UP the stack port of v1, which an
\* earlier probe from another sender had taken DOWN.
C26_Witness ==
  /\ last.op = "lldp_handler"
  /\ last.v = "v1"
  /\ last.p = 1
  /\ metrics["v1"].stack_probes_received = 2
  /\ metrics["v1"].stack_cabling_errors = 1
  /\ probe["v1"][1].stack_correct
  /\ stack_state["v1"][1] = STACK_UP

\* ------------------------------------------------ stack ports being added
\* The datapaths of the stacked s1 and s2 connect and disconnect, and
\* ports_add is called for ports they have and for one they have not.
NextStackAdd ==
  \/ \E v \in {"v1", "v2"}, up \in {{}, {1, 2}} : Connect(v, up)
  \/ \E v \in {"v1", "v2"} : Disconnect(v)
  \/ \E v \in {"v1", "v2"}, port_nums \in {{1}, {2}, {1, 2}, {1, 2, 3}},
        cold_start \in BOOLEAN :
       PortsAdd(v, port_nums, cold_start)

SpecStackAdd == InitCabling /\ [][NextStackAdd]_vars

\* The messages of a list that are of kind k and match in_port p.
OnPort(msgs, k, p) == {i \in DOMAIN msgs : msgs[i].k = k /\ msgs[i].port = p}

\* The flows of the VLAN table that pass the traffic of a port on.
AcceptKinds == {"accept_to_classification", "port_vlan_native", "port_vlan_tagged"}

\* Every flow of msgs that accepts traffic from stack port p comes with a
\* drop of the untagged traffic of p at a strictly higher priority.
UntaggedDropped(msgs, p) ==
  \A i \in DOMAIN msgs :
    msgs[i].k \in AcceptKinds /\ msgs[i].port = p
    => \E j \in OnPort(msgs, "flowdrop_untagged", p) :
         priority_of(msgs[j].dp, msgs[j].prio)
           > priority_of(msgs[i].dp, msgs[i].prio)

\* The step is ports_add on the running v for a set of ports that holds p.
AddsPort(v, p) ==
  /\ Runs("ports_add")
  /\ last'.v = v
  /\ (last'.x \div (2 ^ (p - 1))) % 2 = 1
  /\ running[v]

\* C27: for every stack port that ports_add adds, the VLAN table gets a
\* drop for the untagged traffic of that in-port at a priority strictly
\* higher than that of the flow that accepts the in-port's traffic to the
\* classification table; no handler returns an accepting flow for a stack
\* port without that drop.
C27_StackUntagged ==
  [][\A v \in valves : \A p \in StackPorts(dp[v]) :
       /\ UntaggedDropped(ret'.by[v], p)
       /\ AddsPort(v, p)
            => /\ OnPort(ret'.by[v], "accept_to_classification", p) # {}
               /\ OnPort(ret'.by[v], "flowdrop_untagged", p) # {}
               /\ OnPort(ret'.by[v], "port_vlan_native", p) = {}
               /\ OnPort(ret'.by[v], "port_vlan_tagged", p) = {}]_vars

\* ports_add added the stack port 1 of the running s2: the accepting flow
\* has the DP's low priority and the drop of untagged traffic one more.
C27_Witness ==
  /\ last.op = "ports_add"
  /\ last.v = "v2"
  /\ last.x % 2 = 1
  /\ running["v2"]
  /\ \E i \in OnPort(ret.by["v2"], "accept_to_classification", 1) :
       priority_of("s2", ret.by["v2"][i].prio) = 10000
  /\ \E j \in OnPort(ret.by["v2"], "flowdrop_untagged", 1) :
       priority_of("s2", ret.by["v2"][j].prio) = 10001

\* ------------------------------------------------------ LACP passthrough
\* The DP q1: port 1 is an active LACP port that passes the state of the
\* LACP port 3 through.
InitPassthrough == InitWith({"v1"}, ("v1" :> "q1"), [v \in {"v1"} |-> FALSE])

\* The datapath connects; PDUs arrive on port 1 and on its peer port 3;
\* fast_advertise runs; ports are added again.
NextPassthrough ==
  \/ TickTo(MaxLacpNow)
  \/ Connect("v1", {1, 2, 3})
  \/ \E p \in {1, 3}, up \in {0, 1} : RcvLacp("v1", p, [sys |-> 1, up |-> up])
  \/ FastAdvertise("v1")
  \/ \E port_nums \in {{1}, {3}, {1, 3}} : PortsAdd("v1", port_nums, FALSE)

SpecPassthrough == InitPassthrough /\ [][NextPassthrough]_vars

\* The ports of v with passthrough peers, and whether all the peers of
\* such a port are LACP UP.
PassthroughPorts(v) ==
  {p \in CPorts(dp[v]) : CPort(dp[v], p).lacp_passthrough # {}}
PeersUp(v, p) ==
  \A peer \in CPort(dp[v], p).lacp_passthrough : lacp_up[v][peer] = 1
PduOn(msgs, p) == \E i \in DOMAIN msgs : msgs[i].k = "lacp_pdu" /\ msgs[i].port = p

\* fast_advertise ran its tasks: its interval had passed.
Advertised(v) ==
  /\ Runs("fast_advertise")
  /\ last'.v = v
  /\ conf[dp[v]].fast_advertise_interval # 0
  /\ clock - last_fast_advertise_sec[v] >= conf[dp[v]].fast_advertise_interval

\* C28: on a port with LACP passthrough no handler emits a LACP PDU while a
\* passthrough peer of the port is LACP DOWN: not lacp_handler as a reply,
\* not fast_advertise, not ports_add; once all the peers are UP the PDUs are
\* emitted again: the reply that is due, the PDU of fast_advertise on an
\* active port that is running, and the PDU of ports_add on an active port
\* whose peers are not added along with it.
C28_Passthrough ==
  [][\A v \in valves : \A p \in PassthroughPorts(v) :
       /\ PduOn(ret'.by[v], p) => PeersUp(v, p)
       /\ (/\ Runs("lacp_handler") /\ last'.v = v /\ last'.p = p
           /\ PeersUp(v, p)
           /\ ReplyDue(v, p, [sys |-> 1, up |-> last'.x], clock))
            => PduOn(ret'.by[v], p)
       /\ (/\ Advertised(v)
           /\ p \in lacp_active_ports(dp[v])
           /\ phys_up[v][p]
           /\ PeersUp(v, p))
            => PduOn(ret'.by[v], p)
       /\ (/\ AddsPort(v, p)
           /\ p \in lacp_active_ports(dp[v])
           /\ PeersUp(v, p)
           /\ \A peer \in CPort(dp[v], p).lacp_passthrough :
                (last'.x \div (2 ^ (peer - 1))) % 2 = 0)
            => PduOn(ret'.by[v], p)]_vars

\* fast_advertise sent a PDU on port 1 once its passthrough peer, port 3,
\* was UP; the last PDU received on port 1 had been left unanswered.
C28_Witness ==
  /\ last.op = "fast_advertise"
  /\ lacp_up["v1"][3] = 1
  /\ PduOn(ret.by["v1"], 1)
  /\ last_lacp_pkt["v1"][1] # NoPkt
  /\ lacp_last_resp["v1"][1] \notin {None, last.now}

\* ------------------------------------------------ LACP ports and their drop
\* A valve with configuration a, whose port 2 is a LACP port.
InitLacpFlows == InitWith({"v1"}, ("v1" :> "a"), [v \in {"v1"} |-> FALSE])

\* Handlers run while fewer than MaxLacpFlowmsgs messages were sent.
Budget == metrics["v1"].of_flowmsgs_sent < MaxLacpFlowmsgs

\* What a handler returns is sent before anything else happens.  The
\* datapath connects with or without its LACP port; the LACP partner sends
\* PDUs or falls silent; the port goes down and comes up; the configuration
\* is reloaded with a port removed (d) or an ACL changed (f).
NextLacpFlows ==
  \/ Send("v1")
  \/ AllSent /\ Budget /\ Tick
  \/ AllSent /\ Budget /\ \E up \in {{1, 3}, {1, 2, 3}} : Connect("v1", up)
  \/ AllSent /\ Budget /\ \E up \in {0, 1} : RcvLacp("v1", 2, [sys |-> 1, up |-> up])
  \/ AllSent /\ Budget /\ StateExpire("v1")
  \/ AllSent /\ Budget /\ \E st \in BOOLEAN : PortStatus("v1", 2, "MODIFY", st)
  \/ AllSent /\ Budget /\ \E c \in {"d", "f"} : Reload("v1", c)

SpecLacpFlows == InitLacpFlows /\ [][NextLacpFlows]_vars

\* The input drop lacp_down installs for port p, as a flow of the table.
LacpDrop(p) ==
  [k |-> "flowdrop", port |-> p, vid |-> 0, prio |-> "high_priority", body |-> {}]

\* msgs holds the drop of lacp_down for port p and the punt of
\* slow-protocol frames, truncated to LACP_SIZE.
DropAndPunt(msgs, p) ==
  /\ \E i \in DOMAIN msgs :
       /\ msgs[i].k = "flowdrop" /\ msgs[i].port = p
       /\ msgs[i].prio = "high_priority"
  /\ \E i \in DOMAIN msgs :
       /\ msgs[i].k = "flowcontroller_slow" /\ msgs[i].port = p
       /\ msgs[i].prio = "highest_priority"
       /\ msgs[i].max_len = LACP_SIZE

\* msgs deletes the drop of port p, strictly, and nothing else, and adds
\* the flood rules of each VLAN of the port.
DropDeleted(msgs, c, p) ==
  /\ \E i \in DOMAIN msgs :
       /\ msgs[i].k = "flowdel_strict" /\ msgs[i].port = p
       /\ msgs[i].prio = "high_priority"
  /\ \A i \in DOMAIN msgs :
       msgs[i].k \in FlowDeletes
       => msgs[i].k = "flowdel_strict" /\ msgs[i].port = p
  /\ \A vid \in PortVids(CPort(c, p)) : HasMsg(msgs, "flood_add_vlan", 0, vid)

\* Port p of v is added: the datapath reported it up, at its connection or
\* since, ports_add ran for it and ports_delete has not.
Added(v, p) == p \in up_nos[v]

\* The port was added to the DP object the valve holds now: a reload
\* replaces the DP and its Port objects, and with them dyn_phys_up.
AddedHere(v, p) == Added(v, p) /\ phys_up[v][p]

\* A handler that takes port p DOWN returns the drop and the punt, and one
\* that takes it UP deletes exactly the drop and adds the flood rules.
LacpFlowsOn(v, p) ==
  /\ (/\ lacp_up[v][p] = 1 /\ lacp_up'[v][p] = 0
      /\ running'[v] /\ ~ret'.none)
       => DropAndPunt(ret'.by[v], p)
  /\ (/\ lacp_up[v][p] = 0 /\ lacp_up'[v][p] = 1
      /\ lacp_forwarding(dp'[v]))
       => DropDeleted(ret'.by[v], dp'[v], p)

\* C29: for every added LACP port of a DP that forwards for it, the
\* datapath holds the high_priority drop on the port's in-port exactly while
\* the port's LACP state is DOWN; a handler that takes the port DOWN returns
\* the drop together with the punt of slow-protocol frames (highest_priority,
\* truncated to LACP_SIZE), and a handler that takes it UP deletes exactly
\* that drop and adds the flood rules of each VLAN of the port.
C29_LacpDrop ==
  /\ [](\A v \in valves : \A p \in LacpPorts(dp[v]) :
          (/\ AllSent /\ running[v] /\ Added(v, p)
           /\ lacp_forwarding(dp[v]))
            => (LacpDrop(p) \in datapath[v].flows <=> lacp_up[v][p] = 0))
  /\ [][\A v \in valves : \A p \in LacpPorts(dp'[v]) :
          Added(v, p) => LacpFlowsOn(v, p)]_vars

\* The same between reloads: for the ports added to the DP object the valve
\* holds, and on the steps that keep that object.
LacpDropBetweenReloads ==
  /\ [](\A v \in valves : \A p \in LacpPorts(dp[v]) :
          (/\ AllSent /\ running[v] /\ AddedHere(v, p)
           /\ lacp_forwarding(dp[v]))
            => (LacpDrop(p) \in datapath[v].flows <=> lacp_up[v][p] = 0))
  /\ [][\A v \in valves : \A p \in LacpPorts(dp'[v]) :
          (Added(v, p) /\ last'.op # "reload_config")
            => LacpFlowsOn(v, p)]_vars

\* The LACP port 2 is UP and the datapath holds no drop for it: the state a
\* reload finds.
LacpUpNoDrop ==
  /\ AllSent
  /\ running["v1"]
  /\ AddedHere("v1", 2)
  /\ lacp_up["v1"][2] = 1
  /\ LacpDrop(2) \notin datapath["v1"].flows

\* --------------------------------------------- the paths of a packet-in
\* Two stacked valves that learn routes across the stack and route on VLAN
\* 100; port 2 of the first holds one host at most, its port 3 is a LACP
\* port.
InitPaths ==
  InitWith({"v1", "v2"}, ("v1" :> "g1" @@ "v2" :> "g2"),
           [v \in {"v1", "v2"} |-> FALSE])

\* The packet-ins of the first valve: frames of two hosts on VLAN 100, IP
\* or of a protocol no route manager handles; and frames without a VLAN,
\* LACP PDUs to the slow-protocols address, on the LACP port and on another,
\* and LLDP beacons of the stack peer, on the stack port and on the LACP
\* port.
HostFrames ==
  {[HostPacketIn(a[1], 100, a[2]) EXCEPT !.eth_type = a[3]] :
     a \in {2, 3} \X {"m1", "m2"} \X {"ip", "mpls"}}
SlowFrames ==
  {[HostPacketIn(a[1], None, "m1") EXCEPT
      !.eth_dst = "01:80:c2:00:00:02", !.eth_type = "slow",
      !.lacp = [sys |-> 1, up |-> a[2]]] :
     a \in {2, 3} \X {0, 1}}
LldpFrames ==
  {[HostPacketIn(p, None, "m1") EXCEPT
      !.eth_dst = "01:80:c2:00:00:0e", !.eth_type = "lldp",
      !.lldp = [remote_dp_id |-> 2, remote_dp_name |-> "g2",
                remote_port_id |-> 1]] :
     p \in {1, 3}}
PathPacketIns == HostFrames \cup SlowFrames \cup LldpFrames

NextPaths ==
  \/ TickTo(1)
  \/ \E v \in {"v1", "v2"} : Connect(v, CPorts(dp[v]))
  \/ \E msg \in PathPacketIns : RcvPacketIn("v1", msg)

SpecPaths == InitPaths /\ [][NextPaths]_vars

\* No message of kind k2 comes before a message of kind k1 in msgs.
Precedes(msgs, k1, k2) ==
  \A i \in DOMAIN msgs : \A j \in DOMAIN msgs :
    (msgs[i].k = k1 /\ msgs[j].k = k2) => i < j

\* The frame is a LACP PDU to the slow-protocols address on a LACP port of v.
IsLacp(v, msg) ==
  /\ CPort(dp[v], msg.in_port).lacp # 0
  /\ msg.eth_dst = "01:80:c2:00:00:02"
  /\ msg.eth_type = "slow"

\* The step took the non-VLAN path for msg: the LACP handler saw the PDU of
\* a LACP frame and the LLDP handler did not act; any other frame went to
\* the LLDP handler, which verifies a beacon on a stack port; no host was
\* learned, banned or routed (a LACP port that goes DOWN loses its hosts).
NonVlanPath(v, msg) ==
  /\ metrics'[v].of_non_vlan_packet_ins = metrics[v].of_non_vlan_packet_ins + 1
  /\ metrics'[v].of_vlan_packet_ins = metrics[v].of_vlan_packet_ins
  /\ IF IsLacp(v, msg)
     THEN /\ last_lacp_pkt'[v][msg.in_port] = msg.lacp
          /\ metrics'[v].stack_probes_received = metrics[v].stack_probes_received
     ELSE /\ last_lacp_pkt' = last_lacp_pkt
          /\ lacp_up' = lacp_up
          /\ metrics'[v].stack_probes_received =
               metrics[v].stack_probes_received
               + (IF /\ msg.eth_type = "lldp"
                     /\ CPort(dp[v], msg.in_port).stack_dp # ""
                  THEN 1 ELSE 0)
  /\ metrics'[v].port_learn_bans = metrics[v].port_learn_bans
  /\ \A w \in valves :
       /\ hosts'[w] \subseteq hosts[w]
       /\ ~Called(calls', "router_rcv_packet", w)
       /\ \A i \in DOMAIN ret'.by[w] :
            ret'.by[w][i].k \notin {"learn_src", "learn_dst", "route", "ban_learning"}

\* The step took the VLAN path for msg: with ban rules, these alone are
\* returned, for v alone, and no valve learned or routed; without, each
\* valve's list has what it learned before what it routed.
VlanPath(v, msg) ==
  /\ metrics'[v].of_vlan_packet_ins = metrics[v].of_vlan_packet_ins + 1
  /\ metrics'[v].of_non_vlan_packet_ins = metrics[v].of_non_vlan_packet_ins
  /\ last_lacp_pkt' = last_lacp_pkt
  /\ probe' = probe
  /\ IF ban_rules(World, v, msg.in_port, msg.vid, msg.eth_src).acc # <<>>
     THEN /\ ret'.keys = {v}
          /\ ret'.by[v] = ban_rules(World, v, msg.in_port, msg.vid, msg.eth_src).acc
          /\ \A w \in valves \ {v} : ret'.by[w] = <<>>
          /\ hosts' = hosts
          /\ \A w \in valves : ~Called(calls', "router_rcv_packet", w)
     ELSE /\ v \in ret'.keys
          /\ \A w \in valves :
               /\ Precedes(ret'.by[w], "learn_src", "route")
               /\ Precedes(ret'.by[w], "learn_dst", "route")
               /\ ~HasMsg(ret'.by[w], "ban_learning", msg.in_port, 0)
          /\ (msg.vid \in conf[dp[v]].vips /\ msg.eth_type \in RoutedEthTypes)
               => HasMsg(ret'.by[v], "route", msg.in_port, msg.vid)

\* C30: rcv_packet sends a packet without a VLAN down the non-VLAN path
\* (the LACP handler for a slow-protocols frame on a LACP port, else the
\* LLDP handler) and a packet with a VLAN down the VLAN path, and counts it
\* in exactly one of of_non_vlan_packet_ins and of_vlan_packet_ins; on the
\* VLAN path ban rules, if any, are all that is returned, for this valve
\* alone, without learning or routing, and otherwise what was learned
\* precedes what was routed in the returned lists.
C30_PacketPaths ==
  [][\A msg \in PathPacketIns :
       (RcvPacketIn("v1", msg) /\ last'.x = 1)
         => IF msg.vid = None THEN NonVlanPath("v1", msg)
                              ELSE VlanPath("v1", msg)]_vars

\* A second host on port 2, which holds one host at most, was banned: the
\* ban rule is all the valve returned, and the first host is the only one
\* it knows; the peer valve, which handled the first packet, got nothing.
C30_Witness ==
  /\ last.op = "rcv_packet" /\ last.x = 1 /\ last.p = 2
  /\ metrics["v1"].of_vlan_packet_ins = 2
  /\ metrics["v1"].port_learn_bans[2] = 1
  /\ ret.keys = {"v1"}
  /\ HasMsg(ret.by["v1"], "ban_learning", 2, 0)
  /\ Cardinality(hosts["v1"]) = 1

\* The valve learned a host and routed its packet: the returned list has
\* the host's flows and then the route manager's.
LearnedAndRouted ==
  /\ last.op = "rcv_packet" /\ last.x = 1
  /\ HasMsg(ret.by["v1"], "learn_src", last.p, 100)
  /\ HasMsg(ret.by["v1"], "route", last.p, 100)
  /\ "v2" \in ret.keys

\* ------------------------------------------- warm reloads and the up ports
InitWarm == InitWith({"v1"}, ("v1" :> "a"), [v \in {"v1"} |-> FALSE])

\* The datapath connects with some of its ports up, ports 1 and 3 go up and
\* down, and the configuration is reloaded: another ACL on port 1 (b), port
\* 3 on a new VLAN (c), port 3 removed (d), or the first one again (a).
NextWarm ==
  \/ \E up \in {{2}, {1, 2}, {1, 2, 3}} : Connect("v1", up)
  \/ \E p \in {1, 3} : \E st \in BOOLEAN : PortStatus("v1", p, "MODIFY", st)
  \/ \E c \in {"a", "b", "c", "d"} : Reload("v1", c)

SpecWarm == InitWarm /\ [][NextWarm]_vars

\* The kinds of message that only ports_add builds for a port.
PortOnlyAddKinds == {"port_vlan_native", "port_vlan_tagged", "acl_port"}

\* The message with which ports_delete removes the flows of port pn of c.
PortDeleteKind(c, pn) ==
  IF CPort(c, pn).lacp # 0 THEN "host_del_port" ELSE "flowdel_in_port"

\* C31: on a warm reload the port-add flows are those of the changed ports
\* that were in the up-port set of the outgoing DP when the reload started;
\* a changed port that was not up has its flows deleted, if the outgoing DP
\* had it, and gets no port-add flows; the port deletions of the reload
\* leave the up-port set as it was.
C31_WarmPortsAdd ==
  [][\A v \in valves :
       (last'.op = "reload_config" /\ last'.v = v /\ RestartType(notes') = "warm")
       => LET old == dp[v]
              new == last'.c
              ch == GetConfigChanges(old, new)
              q == ret'.by[v]
              was_up == ch.changed_ports \cap up_nos[v]
          IN /\ \A i \in DOMAIN q :
                  q[i].k \in PortOnlyAddKinds
                    => /\ q[i].port \in was_up
                       /\ q[i] \in Range(StepMsgs(calls', q, "changed_ports_add"))
             /\ \A pn \in was_up :
                  HasMsg(StepMsgs(calls', q, "changed_ports_add"),
                         "port_vlan_native", pn, CPort(new, pn).native)
             /\ \A pn \in (ch.changed_ports \cap CPorts(old)) \ up_nos[v] :
                  HasMsg(StepMsgs(calls', q, "changed_ports_delete"),
                         PortDeleteKind(old, pn), pn, 0)
             /\ \A pn \in PortNos : phys_up'[v][pn] <=> pn \in was_up
             /\ up_nos'[v] = up_nos[v]]_vars

\* A warm reload that moved port 3 to a new VLAN while it was down: port 2,
\* which shares the old VLAN and was up, was added again, and port 3 had
\* its flows deleted and was not added.
C31_Witness ==
  /\ last.op = "reload_config"
  /\ RestartType(notes) = "warm"
  /\ dp["v1"] = "c"
  /\ up_nos["v1"] = {1, 2}
  /\ HasMsg(ret.by["v1"], "port_vlan_native", 2, 200)
  /\ HasMsg(ret.by["v1"], "flowdel_in_port", 3, 0)
  /\ ~HasMsg(ret.by["v1"], "port_vlan_native", 3, 300)
  /\ ~phys_up["v1"][3]

\* --------------------------------------------------- a LACP port goes DOWN
\* The datapath connects; hosts are learned on the LACP port 2 and on port
\* 3; the LACP partner sends PDUs or falls silent; port 2 goes down and
\* comes up; ports are added, during a cold start or not.
NextDown ==
  \/ TickTo(MaxLacpNow)
  \/ Connect("v1", {1, 2, 3})
  \/ \E up \in {0, 1} : RcvLacp("v1", 2, [sys |-> 1, up |-> up])
  \/ \E p \in {2, 3} : RcvPacket("v1", p, 200, "m1")
  \/ StateExpire("v1")
  \/ \E st \in BOOLEAN : PortStatus("v1", 2, "MODIFY", st)
  \/ \E ps \in {{2}, {2, 3}} : \E cold_start \in BOOLEAN :
       PortsAdd("v1", ps, cold_start)

SpecDown == InitWarm /\ [][NextDown]_vars

\* The message is the punt of slow-protocol frames of port p.
IsPunt(m, p) ==
  /\ m.k = "flowcontroller_slow" /\ m.port = p
  /\ m.prio = "highest_priority"

\* The drop of port p at index j of msgs closes what lacp_down builds
\* outside a cold start: the deletion of the hosts of the port, the flood
\* rules of each VLAN of the port, the drop, and the punt after it.
DownAt(msgs, c, p, j) ==
  LET vids == PortVlanSeq(CPort(c, p))
      i == j - Len(vids) - 1
  IN /\ i >= 1
     /\ msgs[i].k = "host_del_port" /\ msgs[i].port = p
     /\ \A n \in 1..Len(vids) :
          msgs[i + n].k = "flood_add_vlan" /\ msgs[i + n].vid = vids[n]
     /\ j < Len(msgs)
     /\ IsPunt(msgs[j + 1], p)

\* The drop of port p at index j of msgs is what lacp_down builds during a
\* cold start: the drop and the punt, without host deletion or flood rules.
ColdAt(msgs, p, j) ==
  /\ j < Len(msgs)
  /\ IsPunt(msgs[j + 1], p)
  /\ j > 1 => msgs[j - 1].k \notin {"host_del_port", "flood_add_vlan"}
  /\ ~HasMsg(msgs, "host_del_port", p, 0)

\* The step is a cold start: a connection, or ports_add told so.
ColdStart ==
  \/ last'.op = "datapath_connect"
  \/ last'.op = "ports_add" /\ last'.c = "cold_start"

\* C32: outside a cold start lacp_down deletes the hosts learned on the
\* port and programs the flooding of each VLAN of the port before it
\* installs the drop and the punt, and it resets the stored PDU, the update
\* time and the response time of the port (lacp_handler, which calls it for
\* a PDU, stores that PDU and its times afterwards); during a cold start it
\* emits the drop and the punt alone.
C32_LacpDown ==
  [][\A v \in valves : \A p \in LacpPorts(dp'[v]) :
       \A j \in DOMAIN ret'.by[v] :
         (/\ ret'.by[v][j].k = "flowdrop" /\ ret'.by[v][j].port = p
          /\ ret'.by[v][j].prio = "high_priority")
           => /\ IF ColdStart THEN ColdAt(ret'.by[v], p, j)
                 ELSE /\ DownAt(ret'.by[v], dp'[v], p, j)
                      /\ \A h \in hosts'[v] : h[2] # p
              /\ lacp_up'[v][p] = 0
              /\ last'.op # "lacp_handler"
                   => /\ last_lacp_pkt'[v][p] = NoPkt
                      /\ lacp_updated'[v][p] = None
                      /\ lacp_last_resp'[v][p] = None]_vars

\* The LACP port 2, UP and with a learned host, timed out: state_expire
\* returned the host deletion, the flood rules, the drop and the punt, and
\* the port has no stored PDU and no times.
C32_Witness ==
  /\ last.op = "state_expire"
  /\ metrics["v1"].of_vlan_packet_ins >= 1
  /\ HasMsg(ret.by["v1"], "host_del_port", 2, 0)
  /\ HasMsg(ret.by["v1"], "flowdrop", 2, 0)
  /\ lacp_up["v1"][2] = 0
  /\ last_lacp_pkt["v1"][2] = NoPkt
  /\ lacp_updated["v1"][2] = None
  /\ lacp_last_resp["v1"][2] = None
  /\ \A h \in hosts["v1"] : h[2] # 2

\* ------------------------------------------ stack links evaluated again
\* The datapaths connect; v1 receives beacons of its peer and of itself on
\* its stack port, runs its periodic check, as often as it likes within a
\* second, and has its stack port taken down by the administrator.
NextAgain ==
  \/ TickTo(MaxExpiryNow)
  \/ \E v \in {"v1", "v2"} : Connect(v, CPorts(dp[v]))
  \/ \E rd \in {"s1", "s2"} : RcvLldp("v1", 1, rd, 1)
  \/ FastStateExpire("v1")
  \/ StackAdminDown("v1", 1)

SpecAgain == InitCabling /\ [][NextAgain]_vars

\* The step evaluates the stack ports of v right after a call that
\* evaluated them at the same time with the same probes: fast_state_expire
\* after fast_state_expire, or after the probe of the only stack port.
EvaluatesAgain(v) ==
  /\ Runs("fast_state_expire") /\ last'.v = v
  /\ last.v = v /\ last.now = last'.now
  /\ \/ last.op = "fast_state_expire"
     \/ /\ last.op = "lldp_handler"
        /\ StackPorts(dp[v]) = {last.p}
        /\ probe[v][last.p].last_seen_lldp_time = last.now

\* C33: the evaluation of the stack links is idempotent: a second
\* evaluation at the same time with the same probes changes no port state,
\* updates no flood topology and returns an empty map; and no evaluation
\* changes the state of a stack port that is admin-down.
C33_EvaluationIdempotent ==
  [][\A v \in valves :
       /\ EvaluatesAgain(v)
            => /\ stack_state' = stack_state
               /\ topo' = topo
               /\ metrics' = metrics
               /\ ret'.keys = {}
               /\ \A w \in valves :
                    /\ ~Called(calls', "update_stack_topo", w)
                    /\ ~Called(calls', "update_tunnel_flowrules", w)
       /\ \A p \in StackPorts(dp[v]) :
            (/\ stack_state[v][p] = STACK_ADMIN_DOWN
             /\ last'.op \in {"fast_state_expire", "lldp_handler"})
              => stack_state'[v][p] = STACK_ADMIN_DOWN]_vars

\* The stack port of v1 came up on a probe and fast_state_expire, run at
\* the time of that probe, found nothing to change.
C33_Witness ==
  /\ last.op = "fast_state_expire" /\ last.v = "v1"
  /\ running["v1"]
  /\ stack_state["v1"][1] = STACK_UP
  /\ probe["v1"][1].last_seen_lldp_time = last.now
  /\ ret.keys = {}
  /\ calls = <<>>

\* A probe arrived on the admin-down stack port of v1, which stayed so.
AdminDownProbed ==
  /\ last.op = "lldp_handler" /\ last.v = "v1" /\ last.p = 1
  /\ stack_state["v1"][1] = STACK_ADMIN_DOWN
  /\ probe["v1"][1].last_seen_lldp_time = last.now

\* ------------------------------------------- every applied stack change
\* The step changes the state of stack port p of v.
StackChange(v, p) ==
  /\ p \in StackPorts(dp[v])
  /\ stack_state'[v][p] # stack_state[v][p]

C35_OnlyRunningReceive ==
  [][(last'.op \in {"fast_state_expire", "lldp_handler"} /\ clock' = clock)
       => /\ \A w \in ret'.keys : running[w]
          /\ \A p \in PortNos :
               StackChange(last'.v, p) =>
                 \A w \in StackFanout(last'.v) :
                   ~running[w] =>
                     /\ Called(calls', "update_stack_topo", w)
                     /\ (<<conf[dp[last'.v]].name, p>> \in topo'[w])
                          <=> (stack_state'[last'.v][p] = STACK_UP)
                     /\ Called(calls', "update_tunnel_flowrules", w)
                     /\ w \notin ret'.keys]_vars

\* fast_state_expire of v1, whose datapath is not running, took its stack
\* port to INIT: v1 was updated and only the running v2 is in the map.
C35_Witness ==
  /\ last.op = "fast_state_expire" /\ last.v = "v1"
  /\ ~running["v1"] /\ running["v2"]
  /\ stack_state["v1"][1] = STACK_INIT
  /\ Called(calls, "update_stack_topo", "v1")
  /\ Called(calls, "update_tunnel_flowrules", "v1")
  /\ ret.keys = {"v2"}
  /\ StackReceived(ret, "v2")

\* ------------------------------------------------ what an UP port has kept
\* The LACP port p of v that is UP has its last PDU and the time of its
\* last update.
UpHasPdu(v, p) ==
  lacp_up[v][p] = 1 =>
    /\ last_lacp_pkt[v][p] # NoPkt
    /\ lacp_updated[v][p] # None

\* C36: after every handler that returned, every LACP port that is UP has a
\* last PDU and a last update time, so that the age _lacp_state_expire
\* computes for it is defined.
C36_UpHasPdu ==
  raised = "" =>
    \A v \in valves : \A p \in LacpPorts(dp[v]) : UpHasPdu(v, p)

\* Where the passthrough peers of every LACP port are ports of the DP, a
\* port that is UP has its last PDU and its last update time.
UpHasPduAlways ==
  \A v \in valves : \A p \in LacpPorts(dp[v]) : UpHasPdu(v, p)

\* --------------------------------------------- LACP ports that are added
\* The datapath connects, disconnects and connects again, with all, one or
\* none of its ports up; PDUs arrive on the two LACP ports; the datapath
\* reports its ports added, up, down and deleted; ports are added.
NextReset ==
  \/ \E up \in {{}, {1}, {1, 2, 3}} : ConnectTo(MaxReconnects, "v1", up)
  \/ Disconnect("v1")
  \/ \E p \in {1, 3}, up \in {0, 1} : RcvLacp("v1", p, [sys |-> 1, up |-> up])
  \/ \E p \in {1, 2}, reason \in PortStatusCodes, st \in BOOLEAN :
       PortStatus("v1", p, reason, st)
  \/ \E ps \in {{1}, {2, 3}}, cold_start \in BOOLEAN :
       PortsAdd("v1", ps, cold_start)

SpecReset == InitLacp /\ [][NextReset]_vars

\* The step is a datapath_connect, a ports_add or a port_status_handler of v
\* that adds port p.
AddsLacpPort(v, p) ==
  /\ last'.v = v
  /\ \/ last'.op = "datapath_connect" /\ p \in up_nos'[v]
     \/ last'.op = "ports_add" /\ (last'.x \div (2 ^ (p - 1))) % 2 = 1
     \/ /\ last'.op = "port_status_handler" /\ last'.p = p
        /\ last'.c = "ADD" \/ (last'.c = "MODIFY" /\ last'.x = 1)

\* The step is a port_status_handler of v that deletes port p.
DeletesLacpPort(v, p) ==
  /\ last'.v = v
  /\ last'.op = "port_status_handler" /\ last'.p = p
  /\ last'.c = "DELETE" \/ (last'.c = "MODIFY" /\ last'.x = 0)

\* C37: a LACP port that datapath_connect, ports_add or a port status event
\* adds is LACP DOWN with port_lacp_status 0 and without a stored PDU right
\* after the call, whatever its LACP state was before; a LACP port that a
\* port status event deletes is LACP DOWN after the call.
C37_AddResetsLacp ==
  [][\A v \in valves : \A p \in LacpPorts(dp[v]) :
       /\ AddsLacpPort(v, p) =>
            /\ lacp_up'[v][p] = 0
            /\ metrics'[v].port_lacp_status[p] = 0
            /\ last_lacp_pkt'[v][p] = NoPkt
       /\ DeletesLacpPort(v, p) =>
            /\ lacp_up'[v][p] = 0
            /\ metrics'[v].port_lacp_status[p] = 0]_vars

\* The datapath connected again with port 1 only: port 1 was added and is
\* LACP DOWN, port 3, UP since the first connection, was not and is UP.
C37_Witness ==
  /\ last.op = "datapath_connect" /\ last.v = "v1"
  /\ metrics["v1"].of_dp_connections = 2
  /\ up_nos["v1"] = {1}
  /\ lacp_up["v1"][1] = 0 /\ last_lacp_pkt["v1"][1] = NoPkt
  /\ metrics["v1"].port_lacp_status[1] = 0
  /\ lacp_up["v1"][3] = 1

\* ------------------------------------------- a PDU on a port that is down
\* C38: a LACP port of a running datapath that is physically down, its last
\* port operation being a delete, is not LACP UP, however port status events
\* and PDUs interleave (in SpecDown datapath_connect adds every port, so a
\* port of the running datapath that is down was deleted since).
C38_DownNeverUp ==
  \A v \in valves : \A p \in LacpPorts(dp[v]) :
    (running[v] /\ ~phys_up[v][p]) => lacp_up[v][p] = 0

\* ----------------------------------------- port status before validation
\* The port status messages: every reason, decoded or not, with either state
\* on port 1, on the always-up port 3 and on port 4, which is not configured.
StatusEvents ==
  [p : {1, 3, 4}, reason : PortStatusCodes \cup {"UNKNOWN"}, port_status : BOOLEAN]

NextStatus ==
  \/ \E up \in {{}, {1, 2}} : Connect("v1", up)
  \/ Disconnect("v1")
  \/ \E e \in StatusEvents : PortStatus("v1", e.p, e.reason, e.port_status)
  \/ RcvPacket("v1", 3, 200, "m1")

SpecStatus == InitPorts /\ [][NextStatus]_vars

\* port_status_handler goes no further than the validation for port p of v
\* with this reason.
StatusRejected(v, p, reason) ==
  \/ ~port_no_valid(dp[v], p)
  \/ ~CPort(dp[v], p).opstatus_reconf
  \/ reason \notin PortStatusCodes

\* C39: port_status_handler notifies PORT_CHANGE and records the reported
\* status in the up-port set of the DP, and for a configured port in the
\* port_status metric, before it validates: for a port that is not
\* configured, a port that is always up or an unknown reason it returns an
\* empty map, emits no flows and leaves the ports and the hosts alone, and
\* the up-port set and the metric hold the reported status all the same.
C39_StatusBeforeValidation ==
  [][\A v \in valves :
       (last'.op = "port_status_handler" /\ last'.v = v) =>
         /\ notes' # <<>>
         /\ notes'[1] = [k |-> "PORT_CHANGE", a |-> last'.c]
         /\ up_nos'[v] = IF last'.x = 1 THEN up_nos[v] \cup {last'.p}
                         ELSE up_nos[v] \ {last'.p}
         /\ port_no_valid(dp[v], last'.p)
              => metrics'[v].port_status[last'.p] = last'.x
         /\ StatusRejected(v, last'.p, last'.c) =>
              /\ ret'.keys = {}
              /\ ret'.by[v] = <<>>
              /\ phys_up' = phys_up
              /\ hosts' = hosts]_vars

\* The running datapath reported its always-up port 3, which has a host,
\* down: nothing was returned, the port and its host stay, and the port is
\* out of the up-port set with port_status 0.
C39_Witness ==
  /\ last.op = "port_status_handler" /\ last.v = "v1" /\ last.p = 3
  /\ last.x = 0
  /\ running["v1"] /\ phys_up["v1"][3]
  /\ hosts["v1"] # {}
  /\ ret.keys = {}
  /\ 3 \notin up_nos["v1"]
  /\ metrics["v1"].port_status[3] = 0

\* An unconfigured port that was reported up is in the up-port set.
UnconfiguredUp ==
  /\ last.op = "port_status_handler" /\ last.p = 4 /\ last.x = 1
  /\ 4 \in up_nos["v1"]
  /\ ret.keys = {}

\* ------------------------------------------ the datapath that is away
\* The packet-ins: the frame of a host on port 2 and a PDU with the actor up
\* on the LACP port 3.
IdlePacketIns ==
  {m \in HostFrames : m.in_port = 2 /\ m.eth_src = "m1" /\ m.eth_type = "ip"}
    \cup {m \in SlowFrames : m.in_port = 3 /\ m.lacp.up = 1}

\* Time passes; the datapath of v1 connects, disconnects and connects again;
\* packet-ins arrive, whether the datapath is connected or not; the periodic
\* tasks run; the LACP port is reported up or down, and is added; the
\* configuration is loaded again.
NextIdle ==
  \/ Tick
  \/ ConnectTo(MaxReconnects, "v1", {1, 2, 3})
  \/ Disconnect("v1")
  \/ \E msg \in IdlePacketIns : RcvPacketIn("v1", msg)
  \/ StateExpire("v1")
  \/ ResolveGateways("v1")
  \/ \E st \in BOOLEAN : PortStatus("v1", 3, "MODIFY", st)
  \/ PortsAdd("v1", {3}, FALSE)
  \/ Reload("v1", "g1")

SpecIdle == InitPaths /\ [][NextIdle]_vars

\* The step changes no LACP state and no host of v.
IdleFrame(v) ==
  /\ lacp_up'[v] = lacp_up[v]
  /\ last_lacp_pkt'[v] = last_lacp_pkt[v]
  /\ lacp_updated'[v] = lacp_updated[v]
  /\ lacp_last_resp'[v] = lacp_last_resp[v]
  /\ hosts'[v] = hosts[v]
  /\ metrics'[v] = metrics[v]

\* While the datapath of v is not running, every packet-in is rejected and
\* state_expire and resolve_gateways return an empty map, and none of them
\* changes a LACP state or a host.
IdleDoesNothing(v) ==
  (/\ ~running[v]
   /\ last'.op \in {"rcv_packet", "state_expire", "resolve_gateways"}
   /\ last'.v = v)
    => /\ last'.op = "rcv_packet" => last'.x = 0
       /\ ret'.keys = {}
       /\ ret'.by[v] = <<>>
       /\ IdleFrame(v)

\* The handlers after which a LACP port of a datapath that is not running
\* is no longer UP, as the specification lists them: the next connect, a
\* port add, or a PDU.
ListedEnds == {"datapath_connect", "ports_add", "rcv_packet"}

\* A LACP port of v that is UP while the datapath is not running is UP
\* after any handler that is not one of ends.
StaysUpUntil(v, ends) ==
  \A p \in LacpPorts(dp[v]) :
    (~running[v] /\ lacp_up[v][p] = 1 /\ lacp_up'[v][p] # 1)
      => (last'.op \in ends /\ last'.v = v)

\* The statement of the specification: while the datapath is not running
\* packet-ins, state_expire and resolve_gateways do nothing, and a LACP port
\* that is UP stays UP until the next connect, port add or PDU.
C40_UpUntilListed ==
  [][\A v \in valves : IdleDoesNothing(v) /\ StaysUpUntil(v, ListedEnds)]_vars

\* C40: while the datapath is not running, before the first
\* datapath_connect or after datapath_disconnect, every packet-in is
\* rejected and state_expire and resolve_gateways return an empty map, and
\* none of them changes a LACP state or a host; a LACP port that is UP stays
\* UP until the datapath connects again, the port is added, a port status
\* event adds or deletes it, or the configuration is loaded again.
C40_IdleUntilPortEvent ==
  [][\A v \in valves :
       /\ IdleDoesNothing(v)
       /\ StaysUpUntil(v, {"datapath_connect", "ports_add",
                           "port_status_handler", "reload_config"})]_vars

\* state_expire ran on the disconnected datapath of v1 whose LACP port 3,
\* UP since before the disconnection, is older than lacp_timeout, and whose
\* VLAN has a learned host: nothing was returned and the port is UP.
C40_Witness ==
  /\ last.op = "state_expire" /\ last.v = "v1"
  /\ ~running["v1"]
  /\ metrics["v1"].of_dp_disconnections = 1
  /\ lacp_up["v1"][3] = 1
  /\ last.now - lacp_updated["v1"][3] > LacpTimeout
  /\ hosts["v1"] # {}
  /\ ret.keys = {}

\* resolve_gateways of the running datapath of v1 returned the messages of
\* the VLAN with a virtual IP address.
GatewaysResolved ==
  /\ last.op = "resolve_gateways" /\ last.v = "v1"
  /\ running["v1"]
  /\ ret.keys = {"v1"}
  /\ HasMsg(ret.by["v1"], "resolve_gateway", 0, 100)

====
